---- MODULE Spec2Model ----
(***************************************************************************)
(* Trade decision and order proposal pipeline of bithoven.                 *)
(*                                                                         *)
(* The five actions of src/common/actions/actions.js are async functions:  *)
(* every `await` is a point where another invocation (of the same process  *)
(* or of another trigger process) may run.  An invocation is modelled as a *)
(* record with a program counter; one step of the model is the code        *)
(* between two awaits together with the awaited call that ends it.         *)
(*                                                                         *)
(* TradeUtil (common/trade/tradeUtil), TxGofer (fleet/txGofer), KeyFleet   *)
(* and JSONStore are not part of the inspected sources; they are modelled  *)
(* from their contracts in the specification (sections 4.2 - 4.5).         *)
(***************************************************************************)
EXTENDS Integers, Sequences, FiniteSets, TLC

\* ------------------------------------------------------------------ bounds
NInv == 2
MaxBal == 1
MaxQty == 2
MaxPct == 6
\* the largest bit quantity of a copied trader's position
MaxOrigQty == 18
\* the most positions a copied trader holds
MaxPositions == 2
\* setup runs that may overlap
NRuns == 2

\* ------------------------------------------------------- JavaScript values
\* parseInt of a non-numeric text; every comparison with it is false
NaN == -99
\* a parameter that the caller did not pass
Undefined == -98

IsNum(v) == v # NaN /\ v # Undefined
JsGt(a, b) == IsNum(a) /\ IsNum(b) /\ a > b
JsGe(a, b) == IsNum(a) /\ IsNum(b) /\ a >= b
JsLe(a, b) == IsNum(a) /\ IsNum(b) /\ a <= b
\* loose equality with a number (ctx.quantity == 0)
JsEq(a, b) == IsNum(a) /\ IsNum(b) /\ a = b

Min(a, b) == IF a <= b THEN a ELSE b

\* --------------------------------------------------------------- universe
Gamers == {"G", "G2"}
\* a ctx without a gamer field
NoGamer == ""
Holders == {"H", "H2"}
\* fleet enumeration order of the Fleet Directory
AllAddresses == <<"H", "H2">>
NoHolder == "null"
NoPortfolio == "none"
\* the portfolioName of an order proposed without one
NoPortfolioName == "undefined"
Sides == {"BUY", "SELL"}
Kinds == {"buyUpTo", "copyBuy", "copySell", "sellBit", "sellAuto"}

\* the portfolio objects a ctx can carry (portfolioConfig.json records)
Portfolio(name) ==
  [portfolioName |-> name,
   keyFleet |-> <<"H2">>,
   stopLossPercent |-> 5,
   initialPortfolioValuationEthers |-> 100]
PortfolioNames == {"P"}

BalanceValues == 0 .. MaxBal
QtyValues == -1 .. MaxQty

\* raw quantities as the rule engine hands them to an action
RawNumber(n) == [type |-> "number", val |-> n]
RawString(n) == [type |-> "string", val |-> n]
RawQuantities ==
  {RawNumber(n) : n \in QtyValues} \cup {RawString(NaN), [type |-> "undefined", val |-> Undefined]}
RawAmounts ==
  {RawString(n) : n \in (-1 .. MaxQty)} \cup {RawString(NaN), RawNumber(1)}

\* parseInt(x, 10): the integer a numeric input denotes, NaN otherwise
parseInt(raw) == IF IsNum(raw.val) THEN raw.val ELSE NaN

\* a faulty test, for comparison: /^\d+$/.test(amount) alone, which converts a
\* number to its text
IsDigitStringAnyType(raw) == IsNum(raw.val) /\ raw.val >= 0

\* typeof amount === "string" && /^\d+$/.test(amount)
IsDigitString(raw) == raw.type = "string" /\ IsNum(raw.val) /\ raw.val >= 0

VARIABLES store, queue, alerts, inv, gate

\* the copy-trade coordinator: the sizing of the initial positions (calc), the
\* setup runs, the portfolio config file, the rule files, the event bus and
\* the copy trader
VARIABLES calc, setup, portfolioConfig, ruleFiles, bus, filler

coordinator == <<calc, setup, portfolioConfig, ruleFiles, bus, filler>>

vars == <<store, queue, alerts, inv, gate, coordinator>>

\* TradeUtil.computePandL: the reports the Valuation Engine can return; the
\* prices it reads are outside the model, so the percentage is left open
PctValues == {0 - MaxPct, MaxPct}
PandLReport(p) == [hasTotal |-> TRUE, absoluteProfit |-> p, percentProfit |-> p]
NoReport == [hasTotal |-> FALSE, absoluteProfit |-> 0, percentProfit |-> 0]
PandLReports == {NoReport} \cup {PandLReport(p) : p \in PctValues}

\* ------------------------------------------------------------- call log
\* An invocation keeps the calls it made, in order (log), and two values
\* recorded for the properties: the balance the store held when its guard read
\* it (balanceRead) and the PENDING quantity of its subject and side when it
\* asked for the proposed sum, for its own holder (pendingOfHolder) and over
\* all holders (pendingAnyHolder).
Call(op, gamer, side, quantity, holder) ==
  [op |-> op, gamer |-> gamer, side |-> side, quantity |-> quantity, holder |-> holder]

IdleInv ==
  [pc |-> "idle", kind |-> "none", gamer |-> "G", holder |-> NoHolder,
   quantity |-> Undefined, isBuy |-> "undefined", portfolio |-> NoPortfolio,
   isInitialFill |-> FALSE, ruleID |-> "none", invokedBy |-> "none",
   adjustedQuantity |-> Undefined, proposedSum |-> Undefined,
   pandL |-> NoReport, err |-> "", log |-> <<>>,
   balanceRead |-> Undefined, pendingOfHolder |-> Undefined,
   pendingAnyHolder |-> Undefined,
   amount |-> [type |-> "undefined", val |-> Undefined]]

Invs == 1 .. NInv

\* ------------------------------------------------ Position Store (4.4)
\* JSONStore / TradeUtil.getBitBalanceInStore: 0 for a missing entry
getBitBalanceInStore(s, holder, gamer) ==
  IF holder \in Holders /\ gamer \in Gamers THEN s[holder][gamer] ELSE 0

\* The fleet holds positions in gamer G only (no record of G2: balance 0).
\* The model starts from every small store of that shape and from the store
\* of the end-to-end scenario (holder H holds 10 bits of G).
PositionStore(b) ==
  [h \in Holders |-> [g \in Gamers |-> IF g = "G" THEN b[h] ELSE 0]]
ScenarioStore ==
  PositionStore([h \in Holders |-> IF h = "H" THEN 10 ELSE 0])
Stores == {PositionStore(b) : b \in [Holders -> BalanceValues]} \cup {ScenarioStore}

\* ------------------------------------------------ Fleet Directory (4.2)
\* KeyFleet.getAllAddresses(portfolioName): the fleet of a portfolio, or the
\* whole fleet when no portfolio is given
getAllAddresses(portfolioName) ==
  IF portfolioName \in PortfolioNames THEN Portfolio(portfolioName).keyFleet
  ELSE AllAddresses

\* TradeUtil.getLargestKeyFleetOwnerOfGamer: the wallet of the fleet with the
\* largest position; the first one in enumeration order wins a tie
getLargestKeyFleetOwnerOfGamer(s, gamer, portfolioName) ==
  LET fleet == getAllAddresses(portfolioName)
      best == CHOOSE k \in 1 .. Len(fleet) :
                /\ \A j \in 1 .. Len(fleet) :
                     getBitBalanceInStore(s, fleet[j], gamer)
                       <= getBitBalanceInStore(s, fleet[k], gamer)
                /\ \A j \in 1 .. (k - 1) :
                     getBitBalanceInStore(s, fleet[j], gamer)
                       < getBitBalanceInStore(s, fleet[k], gamer)
  IN fleet[best]

\* ------------------------------------------- Adjustment / Guard Layer (4.2)
\* TradeUtil.adjustSellTargetAmount: the request clamped to the stored balance
adjustSellTargetAmount(s, gamer, holder, quantity) ==
  IF JsGt(quantity, 0)
  THEN Min(quantity, getBitBalanceInStore(s, holder, gamer))
  ELSE 0

\* TradeUtil.adjustBuyTargetAmount: the request clamped against the global buy
\* constraints, which the model leaves open: any quantity from 0 to the request
adjustBuyTargetAmount(gamer, quantity) ==
  {a \in 0 .. MaxQty : a = 0 \/ JsGe(quantity, a)}

\* ------------------------------------------------- Proposal Queue (4.3)
Order(gamer, side, quantity, ruleID, invokedBy, holder, portfolioName) ==
  [gamer |-> gamer, side |-> side, quantity |-> quantity, ruleID |-> ruleID,
   invokedBy |-> invokedBy, holder |-> holder, portfolioName |-> portfolioName,
   status |-> "PENDING"]

HasPending(q, gamer, side, holder) ==
  \E k \in 1 .. Len(q) :
    /\ q[k].status = "PENDING"
    /\ q[k].gamer = gamer
    /\ q[k].side = side
    /\ q[k].holder = holder

\* TxGofer.proposeOrder refuses (DuplicateProposalError, ValidationError) ...
proposeOrderRejected(q, o) ==
  \/ ~ JsGt(o.quantity, 0)
  \/ HasPending(q, o.gamer, o.side, o.holder)

\* a faulty queue, for comparison: proposeOrder that appends without the check
proposeOrderNoDedup(q, o) ==
  Append(q, o)

\* ... or appends the PENDING order durably
proposeOrder(q, o) ==
  IF proposeOrderRejected(q, o) THEN q ELSE Append(q, o)

RECURSIVE SumPending(_, _, _, _)
SumPending(q, gamer, side, holder) ==
  IF q = <<>> THEN 0
  ELSE LET o == Head(q)
           m == /\ o.status = "PENDING"
                /\ o.gamer = gamer
                /\ o.side = side
                /\ (holder = NoHolder \/ o.holder = holder)
       IN (IF m THEN o.quantity ELSE 0) + SumPending(Tail(q), gamer, side, holder)

\* TradeUtil.getProposedSum(subject, side, holder?)
getProposedSum(q, gamer, side, holder) ==
  SumPending(q, gamer, side, holder)

\* ------------------------------------------------------------ triggers
\* What a trigger hands to an action: the ctx fields and the action's
\* arguments.  Invocation 1 is drawn from every input, well-formed or not;
\* the invocations running beside it are well-formed triggers.
Trigger(kind, gamer, holder, raw, isBuy, portfolio, isInitialFill) ==
  [kind |-> kind, gamer |-> gamer, holder |-> holder, raw |-> raw,
   isBuy |-> isBuy, portfolio |-> portfolio, isInitialFill |-> isInitialFill]

IsBuyValues == {"true", "false", "undefined"}

AllTriggers ==
  {Trigger("buyUpTo", g, NoHolder, RawNumber(n), "undefined", pf, FALSE) :
     g \in Gamers, n \in QtyValues, pf \in PortfolioNames \cup {NoPortfolio}}
  \cup
  {Trigger("copyBuy", "G", NoHolder, r, b, pf, f) :
     r \in RawQuantities, b \in IsBuyValues,
     pf \in PortfolioNames \cup {NoPortfolio}, f \in BOOLEAN}
  \cup
  {Trigger("copySell", "G", NoHolder, r, b, pf, FALSE) :
     r \in RawQuantities, b \in IsBuyValues, pf \in PortfolioNames \cup {NoPortfolio}}
  \cup
  {Trigger("sellBit", g, h, RawNumber(n), "undefined", NoPortfolio, FALSE) :
     g \in Gamers, h \in Holders, n \in QtyValues \cup {12}}
  \cup
  {Trigger("sellAuto", g, NoHolder, r, "undefined", NoPortfolio, FALSE) :
     g \in Gamers \cup {NoGamer}, r \in RawAmounts}

WellFormedTriggers ==
  {Trigger("buyUpTo", "G", NoHolder, RawNumber(n), "undefined", NoPortfolio, FALSE) :
     n \in 1 .. MaxQty}
  \cup
  {Trigger("copyBuy", "G", NoHolder, RawNumber(n), "true", "P", TRUE) :
     n \in 1 .. MaxQty}
  \cup
  {Trigger("copySell", "G", NoHolder, RawNumber(n), "false", "P", FALSE) :
     n \in 1 .. MaxQty}
  \cup
  {Trigger("sellBit", "G", h, RawNumber(n), "undefined", NoPortfolio, FALSE) :
     h \in Holders, n \in 1 .. MaxQty}
  \cup
  {Trigger("sellAuto", "G", NoHolder, RawString(n), "undefined", NoPortfolio, FALSE) :
     n \in 1 .. MaxQty}

Triggers(i) == IF i = 1 THEN AllTriggers ELSE WellFormedTriggers

\* ctx.rule.ruleID and ctx.invokedBy of the rule that dispatched the action
RuleID(t) ==
  IF t.kind = "copyBuy" /\ t.isInitialFill THEN "copyTradeInitialFill"
  ELSE IF t.kind = "sellBit" THEN "sellBitThreshold"
  ELSE t.kind
InvokedBy(t) ==
  IF t.kind = "copyBuy" /\ t.isInitialFill THEN "copyTrader" ELSE "chainIndexer"

\* the invocation record of a trigger that has just fired
Fired(t, quantity) ==
  [IdleInv EXCEPT !.kind = t.kind, !.gamer = t.gamer, !.holder = t.holder,
                  !.quantity = quantity, !.isBuy = t.isBuy,
                  !.portfolio = t.portfolio, !.isInitialFill = t.isInitialFill,
                  !.ruleID = RuleID(t), !.invokedBy = InvokedBy(t)]

Logged(r, c) == [r EXCEPT !.log = Append(r.log, c)]
Thrown(r, e) == [r EXCEPT !.pc = "error", !.err = e]
At(r, pc) == [r EXCEPT !.pc = pc]

\* a faulty branch, for comparison: one that proposes when adjustedQuantity >= 0
BranchOnNonNegative(r, adjustedQuantity) ==
  [r EXCEPT !.adjustedQuantity = adjustedQuantity,
            !.pc = IF JsGe(adjustedQuantity, 0) THEN "propose" ELSE "alertCheck"]

\* adjustedQuantity > 0 ? proposeOrder : getProposedSum
Branch(r, adjustedQuantity) ==
  [r EXCEPT !.adjustedQuantity = adjustedQuantity,
            !.pc = IF JsGt(adjustedQuantity, 0) THEN "propose" ELSE "alertCheck"]

\* ------------------------------------------ the steps the actions share
\* await txGofer.proposeOrder(gamer, side, adjustedQuantity, ruleId, invokedBy,
\* holder, portfolioName); logger.logInfo(obj)
ProposeStep(i, side, quantity, holder, portfolioName) ==
  LET r == inv[i]
      o == Order(r.gamer, side, quantity, r.ruleID, r.invokedBy, holder, portfolioName)
      q == proposeOrder(queue, o)
      c == Call("proposeOrder", r.gamer, side, quantity, holder)
  IN /\ r.pc = "propose"
     /\ queue' = q
     /\ inv' = [inv EXCEPT ![i] =
                  IF q = queue
                    THEN Thrown(Logged(r, c),
                                IF JsGt(quantity, 0) THEN "DuplicateProposalError"
                                ELSE "ValidationError")
                  ELSE At(Logged(Logged(r, c),
                                 Call("logInfo", r.gamer, side, quantity, holder)),
                          "done")]
     /\ UNCHANGED <<store, alerts, gate, coordinator>>

\* a faulty step, for comparison: one that asks for the proposed sum of every holder
AlertCheckStepAnyHolder(i, side, holder) ==
  LET r == inv[i]
      sum == getProposedSum(queue, r.gamer, side, NoHolder)
      c == Call("getProposedSum", r.gamer, side, sum, NoHolder)
  IN /\ r.pc = "alertCheck"
     /\ inv' = [inv EXCEPT ![i] =
                  [Logged(r, c) EXCEPT
                     !.proposedSum = sum,
                     !.pendingOfHolder = SumPending(queue, r.gamer, side, r.holder),
                     !.pendingAnyHolder = SumPending(queue, r.gamer, side, NoHolder),
                     !.pc = IF sum > 0 THEN "alert" ELSE "done"]]
     /\ UNCHANGED <<store, queue, alerts, gate, coordinator>>

\* const proposedSum = await TradeUtil.getProposedSum(gamer, side, holder)
AlertCheckStep(i, side, holder) ==
  LET r == inv[i]
      sum == getProposedSum(queue, r.gamer, side, holder)
      c == Call("getProposedSum", r.gamer, side, sum, holder)
  IN /\ r.pc = "alertCheck"
     /\ inv' = [inv EXCEPT ![i] =
                  [Logged(r, c) EXCEPT
                     !.proposedSum = sum,
                     !.pendingOfHolder = SumPending(queue, r.gamer, side, r.holder),
                     !.pendingAnyHolder = SumPending(queue, r.gamer, side, NoHolder),
                     !.pc = IF sum > 0 THEN "alert" ELSE "done"]]
     /\ UNCHANGED <<store, queue, alerts, gate, coordinator>>

\* await txGofer.raiseAlert(gamer, side): an operator-visible signal, no queue entry
AlertStep(i, side) ==
  LET r == inv[i]
      c == Call("raiseAlert", r.gamer, side, 0, NoHolder)
  IN /\ r.pc = "alert"
     /\ alerts' = [alerts EXCEPT ![<<r.gamer, side>>] = @ + 1]
     /\ inv' = [inv EXCEPT ![i] = At(Logged(r, c), "done")]
     /\ UNCHANGED <<store, queue, gate, coordinator>>

\* ---------------------------------------------------------- buyUpToImpl
\* the trigger fires: the action starts and calls the guard with the quantity
\* as it came (no input check)
buyUpToImplInvoke(i) ==
  \E t \in Triggers(i) :
    /\ t.kind = "buyUpTo"
    /\ inv[i].pc = "idle"
    /\ inv' = [inv EXCEPT ![i] = At(Fired(t, t.raw.val), "guard")]
    /\ UNCHANGED <<store, queue, alerts, gate, coordinator>>

\* const adjustedQuantity = await TradeUtil.adjustBuyTargetAmount(ctx.gamer, quantity)
buyUpToImplGuard(i) ==
  LET r == inv[i] IN
  /\ r.kind = "buyUpTo" /\ r.pc = "guard"
  /\ \E a \in adjustBuyTargetAmount(r.gamer, r.quantity) :
       inv' = [inv EXCEPT ![i] =
                 Branch(Logged(r, Call("adjustBuyTargetAmount", r.gamer, "BUY",
                                       r.quantity, NoHolder)), a)]
  /\ UNCHANGED <<store, queue, alerts, gate, coordinator>>

\* ctx.portfolio ? ctx.portfolio["portfolioName"] : "default"
buyUpToPortfolioName(r) ==
  IF r.portfolio # NoPortfolio THEN Portfolio(r.portfolio).portfolioName ELSE "default"

buyUpToImplPropose(i) ==
  /\ inv[i].kind = "buyUpTo"
  /\ ProposeStep(i, "BUY", inv[i].adjustedQuantity, NoHolder, buyUpToPortfolioName(inv[i]))

buyUpToImplAlertCheck(i) ==
  /\ inv[i].kind = "buyUpTo"
  /\ AlertCheckStep(i, "BUY", NoHolder)

buyUpToImplAlert(i) ==
  /\ inv[i].kind = "buyUpTo"
  /\ AlertStep(i, "BUY")

buyUpToImpl(i) ==
  \/ buyUpToImplInvoke(i)
  \/ buyUpToImplGuard(i)
  \/ buyUpToImplPropose(i)
  \/ buyUpToImplAlertCheck(i)
  \/ buyUpToImplAlert(i)

\* ---------------------------------------------------------- sellBitImpl
\* if (ctx.quantity == 0) return;
sellBitImplInvoke(i) ==
  \E t \in Triggers(i) :
    /\ t.kind = "sellBit"
    /\ inv[i].pc = "idle"
    /\ inv' = [inv EXCEPT ![i] =
                 IF JsEq(t.raw.val, 0) THEN At(Fired(t, t.raw.val), "done")
                 ELSE At(Fired(t, t.raw.val), "guard")]
    /\ UNCHANGED <<store, queue, alerts, gate, coordinator>>

\* await TradeUtil.adjustSellTargetAmount(ctx.gamer, ctx.holder, ctx.quantity)
sellBitImplGuard(i) ==
  LET r == inv[i] IN
  /\ r.kind = "sellBit" /\ r.pc = "guard"
  /\ inv' = [inv EXCEPT ![i] =
               Branch([Logged(r, Call("adjustSellTargetAmount", r.gamer, "SELL",
                                      r.quantity, r.holder))
                         EXCEPT !.balanceRead = store[r.holder][r.gamer]],
                      adjustSellTargetAmount(store, r.gamer, r.holder, r.quantity))]
  /\ UNCHANGED <<store, queue, alerts, gate, coordinator>>

\* a faulty step, for comparison: one that proposes the requested quantity, not the adjusted one
sellBitImplProposeRequested(i) ==
  /\ inv[i].kind = "sellBit"
  /\ ProposeStep(i, "SELL", inv[i].quantity, inv[i].holder, NoPortfolioName)

\* proposeOrder is called without a portfolio name
sellBitImplPropose(i) ==
  /\ inv[i].kind = "sellBit"
  /\ ProposeStep(i, "SELL", inv[i].adjustedQuantity, inv[i].holder, NoPortfolioName)

sellBitImplAlertCheck(i) ==
  /\ inv[i].kind = "sellBit"
  /\ AlertCheckStep(i, "SELL", inv[i].holder)

sellBitImplAlert(i) ==
  /\ inv[i].kind = "sellBit"
  /\ AlertStep(i, "SELL")

sellBitImpl(i) ==
  \/ sellBitImplInvoke(i)
  \/ sellBitImplGuard(i)
  \/ sellBitImplPropose(i)
  \/ sellBitImplAlertCheck(i)
  \/ sellBitImplAlert(i)

\* ------------------------------------------------- stop-loss gate (4.2)
\* CopyTradeUtil.adjustBuyTargetAmountToMeetConfiguredStopLoss.  A report
\* without total, or with a falsy percentProfit, counts as 0 percent.  The
\* current valuation the code also computes is only logged.
currentPandLPercentage(pandLResults) ==
  IF pandLResults.hasTotal /\ pandLResults.percentProfit # 0
  THEN pandLResults.percentProfit
  ELSE 0

\* if (stopLossPercentage > 0) stopLossPercentage = stopLossPercentage * -1
normalizedStopLoss(stopLossPercentage) ==
  IF JsGt(stopLossPercentage, 0) THEN stopLossPercentage * (0 - 1)
  ELSE stopLossPercentage

\* a faulty gate, for comparison: one that compares the stop loss as entered
adjustStopLossNotNormalized(gamer, pandLResults, initialPortfolioValuation, targetPortfolioValuation, stopLossPercentage, quantity) ==
  IF JsGe(stopLossPercentage, currentPandLPercentage(pandLResults))
  THEN 0
  ELSE quantity

adjustBuyTargetAmountToMeetConfiguredStopLoss(gamer, pandLResults, initialPortfolioValuation, targetPortfolioValuation, stopLossPercentage, quantity) ==
  IF JsGe(normalizedStopLoss(stopLossPercentage), currentPandLPercentage(pandLResults))
  THEN 0
  ELSE quantity

\* a faulty entry, for comparison: copyBuyImpl without the test of ctx.isBuy
copyBuyImplEnteredAnySide(t) ==
  LET quantity == parseInt(t.raw)
      r == Fired(t, quantity)
  IN IF JsLe(quantity, 0)
       THEN Thrown(r, "CopyBuyImpl: Quantity must be greater than zero")
     ELSE IF t.portfolio = NoPortfolio
       THEN Thrown(r, "CopyBuyImpl: ctx should have portfolio object")
     ELSE IF ~ t.isInitialFill THEN At(r, "guard")
     ELSE Branch(r, quantity)

\* ----------------------------------------------------------- copyBuyImpl
\* quantity = parseInt(quantity, 10) and the input checks; an initial fill goes
\* straight to the branch on adjustedQuantity = quantity
copyBuyImplEntered(t) ==
  LET quantity == parseInt(t.raw)
      r == Fired(t, quantity)
  IN IF JsLe(quantity, 0)
       THEN Thrown(r, "CopyBuyImpl: Quantity must be greater than zero")
     ELSE IF t.isBuy # "true" THEN At(r, "done")
     ELSE IF t.portfolio = NoPortfolio
       THEN Thrown(r, "CopyBuyImpl: ctx should have portfolio object")
     ELSE IF ~ t.isInitialFill THEN At(r, "guard")
     ELSE Branch(r, quantity)

copyBuyImplInvoke(i) ==
  \E t \in Triggers(i) :
    /\ t.kind = "copyBuy"
    /\ inv[i].pc = "idle"
    /\ inv' = [inv EXCEPT ![i] = copyBuyImplEntered(t)]
    /\ UNCHANGED <<store, queue, alerts, gate, coordinator>>

\* targetPortfolioValuation = initial - (initial * stopLossPercent) / 100
targetPortfolioValuation(pf) ==
  pf.initialPortfolioValuationEthers
    - (pf.initialPortfolioValuationEthers * pf.stopLossPercent) \div 100

\* the call of actions.js:127-133 passes five arguments: quantity arrives as
\* stopLossPercentage and the parameter quantity is undefined
copyBuyStopLossCall(r, pandLResults) ==
  adjustBuyTargetAmountToMeetConfiguredStopLoss(
    r.gamer, pandLResults,
    Portfolio(r.portfolio).initialPortfolioValuationEthers,
    targetPortfolioValuation(Portfolio(r.portfolio)),
    r.quantity, Undefined)

\* getAllAddresses, getFullStore, computePandL and the stop-loss guard
copyBuyImplGuard(i) ==
  LET r == inv[i] IN
  /\ r.kind = "copyBuy" /\ r.pc = "guard"
  /\ \E pandLResults \in PandLReports :
       inv' = [inv EXCEPT ![i] =
                 Branch([Logged(Logged(Logged(r,
                            Call("getFullStore", r.gamer, "BUY", 0, NoHolder)),
                            Call("computePandL", r.gamer, "BUY", 0, NoHolder)),
                            Call("adjustBuyTargetAmountToMeetConfiguredStopLoss",
                                 r.gamer, "BUY", r.quantity, NoHolder))
                           EXCEPT !.pandL = pandLResults],
                        copyBuyStopLossCall(r, pandLResults))]
  /\ UNCHANGED <<store, queue, alerts, gate, coordinator>>

\* the CopyTradeUtil that actions.js:10 requires (common/trade/copyTradeUtil.js)
\* has no adjustBuyTargetAmountToMeetConfiguredStopLoss: the call throws
copyBuyImplGuardMissing(i) ==
  LET r == inv[i] IN
  /\ r.kind = "copyBuy" /\ r.pc = "guard"
  /\ inv' = [inv EXCEPT ![i] =
               Thrown(Logged(Logged(r,
                        Call("getFullStore", r.gamer, "BUY", 0, NoHolder)),
                        Call("computePandL", r.gamer, "BUY", 0, NoHolder)),
                      "TypeError")]
  /\ UNCHANGED <<store, queue, alerts, gate, coordinator>>

copyBuyImplPropose(i) ==
  /\ inv[i].kind = "copyBuy"
  /\ ProposeStep(i, "BUY", inv[i].adjustedQuantity, NoHolder,
                 Portfolio(inv[i].portfolio).portfolioName)

copyBuyImplAlertCheck(i) ==
  /\ inv[i].kind = "copyBuy"
  /\ AlertCheckStep(i, "BUY", NoHolder)

copyBuyImplAlert(i) ==
  /\ inv[i].kind = "copyBuy"
  /\ AlertStep(i, "BUY")

copyBuyImpl(i) ==
  \/ copyBuyImplInvoke(i)
  \/ copyBuyImplGuard(i)
  \/ copyBuyImplGuardMissing(i)
  \/ copyBuyImplPropose(i)
  \/ copyBuyImplAlertCheck(i)
  \/ copyBuyImplAlert(i)

\* ---------------------------------------------------------- copySellImpl
copySellImplInvoke(i) ==
  \E t \in Triggers(i) :
    /\ t.kind = "copySell"
    /\ inv[i].pc = "idle"
    /\ LET quantity == parseInt(t.raw)
           r == Fired(t, quantity)
       IN inv' = [inv EXCEPT ![i] =
                    IF JsLe(quantity, 0)
                      THEN Thrown(r, "CopyBuyImpl: Quantity must be greater than zero")
                    ELSE IF t.isBuy # "false" THEN At(r, "done")
                    ELSE IF t.portfolio = NoPortfolio
                      THEN Thrown(r, "CopyBuyImpl: ctx should have portfolio object")
                    ELSE At(r, "holder")]
    /\ UNCHANGED <<store, queue, alerts, gate, coordinator>>

\* const holder = await TradeUtil.getLargestKeyFleetOwnerOfGamer(gamer, portfolioName)
copySellImplHolder(i) ==
  LET r == inv[i]
      holder == getLargestKeyFleetOwnerOfGamer(store, r.gamer,
                                               Portfolio(r.portfolio).portfolioName)
  IN /\ r.kind = "copySell" /\ r.pc = "holder"
     /\ inv' = [inv EXCEPT ![i] =
                  [Logged(r, Call("getLargestKeyFleetOwnerOfGamer", r.gamer, "SELL",
                                  0, holder))
                     EXCEPT !.holder = holder, !.pc = "guard"]]
     /\ UNCHANGED <<store, queue, alerts, gate, coordinator>>

copySellImplGuard(i) ==
  LET r == inv[i] IN
  /\ r.kind = "copySell" /\ r.pc = "guard"
  /\ inv' = [inv EXCEPT ![i] =
               Branch([Logged(r, Call("adjustSellTargetAmount", r.gamer, "SELL",
                                      r.quantity, r.holder))
                         EXCEPT !.balanceRead = store[r.holder][r.gamer]],
                      adjustSellTargetAmount(store, r.gamer, r.holder, r.quantity))]
  /\ UNCHANGED <<store, queue, alerts, gate, coordinator>>

copySellImplPropose(i) ==
  /\ inv[i].kind = "copySell"
  /\ ProposeStep(i, "SELL", inv[i].adjustedQuantity, inv[i].holder,
                 Portfolio(inv[i].portfolio).portfolioName)

copySellImplAlertCheck(i) ==
  /\ inv[i].kind = "copySell"
  /\ AlertCheckStep(i, "SELL", inv[i].holder)

copySellImplAlert(i) ==
  /\ inv[i].kind = "copySell"
  /\ AlertStep(i, "SELL")

copySellImpl(i) ==
  \/ copySellImplInvoke(i)
  \/ copySellImplHolder(i)
  \/ copySellImplGuard(i)
  \/ copySellImplPropose(i)
  \/ copySellImplAlertCheck(i)
  \/ copySellImplAlert(i)

\* ------------------------------------ sellBitFromAutoSelectedFleetKeyImpl
\* the checks of amount and ctx.gamer, amountInt = parseInt(amount, 10),
\* if (amountInt == 0) return
sellBitFromAutoSelectedFleetKeyImplInvoke(i) ==
  \E t \in Triggers(i) :
    /\ t.kind = "sellAuto"
    /\ inv[i].pc = "idle"
    /\ LET amountInt == parseInt(t.raw)
           r == [Fired(t, amountInt) EXCEPT !.amount = t.raw]
       IN inv' = [inv EXCEPT ![i] =
                    IF ~ IsDigitString(t.raw)
                      THEN Thrown(r, "The amount parameter must be a string representation of an integer")
                    ELSE IF t.gamer = NoGamer
                      THEN Thrown(r, "The ctx object must have gamer field")
                    ELSE IF JsEq(amountInt, 0) THEN At(r, "done")
                    ELSE At(r, "holder")]
    /\ UNCHANGED <<store, queue, alerts, gate, coordinator>>

\* const holder = await TradeUtil.getLargestKeyFleetOwnerOfGamer(ctx.gamer)
sellBitFromAutoSelectedFleetKeyImplHolder(i) ==
  LET r == inv[i]
      holder == getLargestKeyFleetOwnerOfGamer(store, r.gamer, NoPortfolio)
  IN /\ r.kind = "sellAuto" /\ r.pc = "holder"
     /\ inv' = [inv EXCEPT ![i] =
                  [Logged(r, Call("getLargestKeyFleetOwnerOfGamer", r.gamer, "SELL",
                                  0, holder))
                     EXCEPT !.holder = holder, !.pc = "guard"]]
     /\ UNCHANGED <<store, queue, alerts, gate, coordinator>>

sellBitFromAutoSelectedFleetKeyImplGuard(i) ==
  LET r == inv[i] IN
  /\ r.kind = "sellAuto" /\ r.pc = "guard"
  /\ inv' = [inv EXCEPT ![i] =
               Branch([Logged(r, Call("adjustSellTargetAmount", r.gamer, "SELL",
                                      r.quantity, r.holder))
                         EXCEPT !.balanceRead = store[r.holder][r.gamer]],
                      adjustSellTargetAmount(store, r.gamer, r.holder, r.quantity))]
  /\ UNCHANGED <<store, queue, alerts, gate, coordinator>>

sellBitFromAutoSelectedFleetKeyImplPropose(i) ==
  /\ inv[i].kind = "sellAuto"
  /\ ProposeStep(i, "SELL", inv[i].adjustedQuantity, inv[i].holder, NoPortfolioName)

sellBitFromAutoSelectedFleetKeyImplAlertCheck(i) ==
  /\ inv[i].kind = "sellAuto"
  /\ AlertCheckStep(i, "SELL", inv[i].holder)

sellBitFromAutoSelectedFleetKeyImplAlert(i) ==
  /\ inv[i].kind = "sellAuto"
  /\ AlertStep(i, "SELL")

sellBitFromAutoSelectedFleetKeyImpl(i) ==
  \/ sellBitFromAutoSelectedFleetKeyImplInvoke(i)
  \/ sellBitFromAutoSelectedFleetKeyImplHolder(i)
  \/ sellBitFromAutoSelectedFleetKeyImplGuard(i)
  \/ sellBitFromAutoSelectedFleetKeyImplPropose(i)
  \/ sellBitFromAutoSelectedFleetKeyImplAlertCheck(i)
  \/ sellBitFromAutoSelectedFleetKeyImplAlert(i)

\* -------------------------------------------------- the queue's consumer
\* the execution process resolves a PENDING order: RESOLVED or FAILED, once
ConsumerResolve ==
  \E k \in 1 .. Len(queue), st \in {"RESOLVED", "FAILED"} :
    /\ queue[k].status = "PENDING"
    /\ queue' = [queue EXCEPT ![k].status = st]
    /\ UNCHANGED <<store, alerts, inv, gate, coordinator>>

\* ------------------------------------------- the Position Store's writer
\* the Chain Gateway indexer records a confirmed on-chain transfer: the only
\* writer of the store, one record at a time
IndexerWrite ==
  \E h \in Holders, b \in BalanceValues :
    /\ b # store[h]["G"]
    /\ store' = [store EXCEPT ![h]["G"] = b]
    /\ UNCHANGED <<queue, alerts, inv, gate, coordinator>>

\* ------------------------------------------ CopyTradeUtil: initial sizing
CopyStrategies == {"min", "mid", "all", "none"}

\* a position: [gamerAddress, quantity]
Position(gamer, quantity) == [gamer |-> gamer, quantity |-> quantity]
OrigQtyValues == 0 .. MaxOrigQty
RECURSIVE PositionLists(_)
PositionLists(n) ==
  IF n = 0 THEN {<<>>}
  ELSE LET shorter == PositionLists(n - 1)
       IN shorter \cup
          {Append(l, Position(g, q)) :
             l \in {x \in shorter : Len(x) = n - 1},
             g \in Gamers,
             q \in OrigQtyValues}
\* the positions of a copied trader: one entry per gamer (Object.keys)
CopiedTraderPositions ==
  {l \in PositionLists(MaxPositions) :
     \A j, k \in 1 .. Len(l) : j # k => l[j].gamer # l[k].gamer}

\* Math.ceil(n / 2) of a quantity n >= 0
CeilHalf(n) == (n + 1) \div 2

\* a faulty sizing, for comparison: mid as Math.floor(n / 2)
copyStrategyQuantityFloor(copyStrategy, n) ==
  IF copyStrategy = "min" THEN 1
  ELSE IF copyStrategy = "mid" THEN n \div 2
  ELSE IF copyStrategy = "all" THEN n
  ELSE Undefined

\* the quantity the strategy takes of a position of n bits
copyStrategyQuantity(copyStrategy, n) ==
  IF copyStrategy = "min" THEN 1
  ELSE IF copyStrategy = "mid" THEN CeilHalf(n)
  ELSE IF copyStrategy = "all" THEN n
  ELSE Undefined

\* getBuyPrice then convertBitsPriceWeiToEther: the price of quantity bits
getBuyPrice(gamer, quantity) == quantity

\* the calculated position [gamerAddress, quantity, buyPriceInEthers]
calculateInitialPosition(position, copyStrategy) ==
  LET quantity == copyStrategyQuantity(copyStrategy, position.quantity)
  IN [gamer |-> position.gamer, quantity |-> quantity,
      buyPriceInEthers |-> getBuyPrice(position.gamer, quantity)]

CalcOff ==
  [pc |-> "off", copyStrategy |-> "none", copiedTraderPositions |-> <<>>,
   calculatedInitialPositions |-> <<>>, totalQuantity |-> 0,
   totalBuyPriceInEthers |-> 0, priceRequests |-> 0, err |-> ""]

\* --------------------------------------- setupCopyTradePortfolio: values
Runs == 1 .. NRuns

\* String.prototype.trim on the names and addresses of the model
Trim(str) ==
  IF str = " P" THEN "P"
  ELSE IF str = " 0xAa" THEN "0xAa"
  ELSE str

\* ethers.utils.getAddress: the checksummed form of a valid address
getAddress(address) ==
  IF address = "0xaa" THEN "0xAa"
  ELSE IF address = "0xbb" THEN "0xBb"
  ELSE address

\* ethers.utils.isAddress: all-lowercase and checksummed forms are valid
isValidEthereumAddress(address) ==
  address \in {"0xAa", "0xaa", "0xBb", "0xbb", "0xCc"}

\* the element type list of prompts splits the answer and trims each entry
KeyFleetAnswers ==
  {<<"0xAa">>, <<"0xaa">>, <<"0xBb">>, <<"0xAa", "0xAa">>, <<"0xBb", "0xaa">>}
PortfolioNameAnswers == {"P", " P", "Q"}
CopiedTrader == "0xCc"

\* newPortfolioEntry
PortfolioEntry(name, keyFleet, trader, positions, valuation, stopLoss, strategy) ==
  [portfolioName |-> name, keyFleet |-> keyFleet,
   copiedTraderAddress |-> trader,
   newPortfolioInitialPositions |-> positions,
   initialPortfolioValuationEthers |-> valuation,
   stopLossPercent |-> stopLoss,
   copyTradeStrategy |-> strategy]
NoEntry ==
  PortfolioEntry("", <<>>, "", <<>>, Undefined, Undefined, "")

\* the answers and the environment of one run
SetupInput(portfolioName, keyFleet, positions, copyTradeStrategy, stopLossPercent) ==
  [portfolioName |-> portfolioName, keyFleet |-> keyFleet,
   positions |-> positions, copyTradeStrategy |-> copyTradeStrategy,
   stopLossPercent |-> stopLossPercent]
NoInput == SetupInput("", <<>>, <<>>, "none", Undefined)

SetupOff ==
  [pc |-> "off", input |-> NoInput, existingPortfolioData |-> <<>>,
   copiedTraderCurrentPortfolioTemp |-> <<>>,
   calculatedInitialPositions |-> <<>>, totalBuyPriceInEthers |-> 0,
   newPortfolioEntry |-> NoEntry, written |-> FALSE,
   buyRules |-> <<>>, sellRules |-> <<>>, rulesWritten |-> FALSE,
   sent |-> <<>>, ackReceived |-> FALSE, exitCode |-> Undefined, err |-> ""]

FillerOff ==
  [running |-> FALSE, pc |-> "idle", portfolio |-> NoEntry, k |-> 0,
   received |-> 0, invoked |-> <<>>, completed |-> 0, acks |-> 0,
   ackAfter |-> Undefined, err |-> ""]

BusEmpty == [requests |-> <<>>, acks |-> 0]

\* the portfolios whose trimmed name is the trimmed portfolioName
PortfoliosNamed(allPortfolios, portfolioName) ==
  {k \in 1 .. Len(allPortfolios) :
     Trim(allPortfolios[k].portfolioName) = Trim(portfolioName)}

\* validate of the portfolioName prompt: TRUE when the name may be used
portfolioNameAccepted(allPortfolios, name) ==
  /\ Trim(name) # ""
  /\ PortfoliosNamed(allPortfolios, Trim(name)) = {}

Range(seq) == {seq[k] : k \in 1 .. Len(seq)}

\* areAddressesUnique: no address twice in keyFleet, none in an existing fleet
areAddressesUnique(keyFleet, existingData) ==
  LET existingAddresses ==
        UNION {Range(existingData[k].keyFleet) : k \in 1 .. Len(existingData)}
  IN /\ Cardinality(Range(keyFleet)) = Len(keyFleet)
     /\ \A k \in 1 .. Len(keyFleet) : keyFleet[k] \notin existingAddresses

\* Array.prototype.sort by quantity, largest first (stable)
RECURSIVE SortByQuantityDesc(_)
SortByQuantityDesc(l) ==
  IF Len(l) <= 1 THEN l
  ELSE LET rest == SortByQuantityDesc(Tail(l))
           before == SelectSeq(rest, LAMBDA x : x.quantity > Head(l).quantity)
           after == SelectSeq(rest, LAMBDA x : x.quantity <= Head(l).quantity)
       IN before \o <<Head(l)>> \o after

\* the totals calculateInitialPositions returns
RECURSIVE SumOf(_, _)
SumOf(l, field) ==
  IF l = <<>> THEN 0 ELSE Head(l)[field] + SumOf(Tail(l), field)

\* the copy rules of a portfolio
CopyRule(ruleID, portfolioName, action) ==
  [ruleID |-> ruleID, invokeBy |-> "chainIndexer",
   expression |-> portfolioName, action |-> action]
\* a faulty rule, for comparison: the initial-fill rule written to the file
copyBuyRuleInitialFill(portfolioName) ==
  CopyRule("copyTradeInitialFill", portfolioName, "copyBuy(COPY_QTY, true)")

copyBuyRule(portfolioName) ==
  CopyRule("copyTradeBuy", portfolioName, "copyBuy(COPY_QTY, false)")

copySellRule(portfolioName) ==
  CopyRule("copyTradeSell", portfolioName, "copySell(COPY_QTY)")
\* a rule of another kind that the rule files hold before a setup run
OtherRule(ruleID) == [ruleID |-> ruleID, invokeBy |-> "chainIndexer",
                      expression |-> "other", action |-> "other"]

\* push the rule unless a rule with the same hash is in the file
PushRule(rules, rule) ==
  IF rule \in Range(rules) THEN rules ELSE Append(rules, rule)

RuleFilesEmpty == [buyRules |-> <<>>, sellRules |-> <<>>, readable |-> TRUE]

CoordinatorOff ==
  /\ calc = CalcOff
  /\ setup = [s \in Runs |-> SetupOff]
  /\ portfolioConfig = <<>>
  /\ ruleFiles = RuleFilesEmpty
  /\ bus = BusEmpty
  /\ filler = FillerOff

\* ---------------------------------------------------------- the pipeline
GateOff ==
  [phase |-> "off", stopLossPercent |-> 0, pandLResults |-> NoReport,
   quantity |-> 0, result |-> Undefined]

Init ==
  /\ store \in Stores
  /\ queue = <<>>
  /\ alerts = [x \in Gamers \X Sides |-> 0]
  /\ inv = [i \in Invs |-> IdleInv]
  /\ gate = GateOff
  /\ CoordinatorOff

Next ==
  \/ \E i \in Invs : buyUpToImpl(i)
  \/ \E i \in Invs : copyBuyImpl(i)
  \/ \E i \in Invs : copySellImpl(i)
  \/ \E i \in Invs : sellBitImpl(i)
  \/ \E i \in Invs : sellBitFromAutoSelectedFleetKeyImpl(i)
  \/ ConsumerResolve
  \/ IndexerWrite

Spec == Init /\ [][Next]_vars

\* --------------------------------------- the actions with failing calls
\* a faulty action, for comparison: the rejection of the awaited call is
\* swallowed and the action goes on to propose the requested quantity
UpstreamFailsSwallowed(i) ==
  /\ inv[i].pc \in {"holder", "guard", "alertCheck"}
  /\ inv' = [inv EXCEPT ![i] =
               [inv[i] EXCEPT !.err = "UpstreamError",
                              !.adjustedQuantity = inv[i].quantity,
                              !.pc = "propose"]]
  /\ UNCHANGED <<store, queue, alerts, gate, coordinator>>

\* an awaited call of an action (the fleet lookup, the store and P&L reads, the
\* guard, getProposedSum) rejects: nothing catches it inside the action, the
\* promise of the action rejects with the error
UpstreamFails(i) ==
  /\ inv[i].pc \in {"holder", "guard", "alertCheck"}
  /\ inv' = [inv EXCEPT ![i] = Thrown(inv[i], "UpstreamError")]
  /\ UNCHANGED <<store, queue, alerts, gate, coordinator>>

NextUpstream ==
  \/ Next
  \/ \E i \in Invs : UpstreamFails(i)

SpecUpstream == Init /\ [][NextUpstream]_vars

\* ------------------------------------- the stop-loss gate on its own
\* setupCopyTradePortfolio.js: the stop loss a portfolio may be given
maxStopLossPercent == 10
minStopLossPercent == 1

GatePercents == (0 - maxStopLossPercent - 1) .. (maxStopLossPercent + 1)
GateReports == {NoReport} \cup {PandLReport(p) : p \in GatePercents}

InitGate ==
  /\ store = ScenarioStore
  /\ queue = <<>>
  /\ alerts = [x \in Gamers \X Sides |-> 0]
  /\ inv = [i \in Invs |-> IdleInv]
  /\ gate \in [phase : {"in"}, stopLossPercent : GatePercents,
               pandLResults : GateReports, quantity : 1 .. MaxQty,
               result : {Undefined}]
  /\ CoordinatorOff

\* one evaluation of the gate on the drawn inputs
GateApply ==
  /\ gate.phase = "in"
  /\ gate' = [gate EXCEPT
                !.phase = "out",
                !.result = adjustBuyTargetAmountToMeetConfiguredStopLoss(
                             "G", gate.pandLResults, 100, 100,
                             gate.stopLossPercent, gate.quantity)]
  /\ UNCHANGED <<store, queue, alerts, inv, coordinator>>

NextGate == GateApply

SpecGate == InitGate /\ [][NextGate]_vars

\* ------------------------------ calculateInitialPositions on its own
InitSizing ==
  /\ store = ScenarioStore
  /\ queue = <<>>
  /\ alerts = [x \in Gamers \X Sides |-> 0]
  /\ inv = [i \in Invs |-> IdleInv]
  /\ gate = GateOff
  /\ \E l \in CopiedTraderPositions, st \in CopyStrategies :
       calc = [CalcOff EXCEPT !.pc = "start", !.copyStrategy = st,
                              !.copiedTraderPositions = l]
  /\ setup = [s \in Runs |-> SetupOff]
  /\ portfolioConfig = <<>>
  /\ ruleFiles = RuleFilesEmpty
  /\ bus = BusEmpty
  /\ filler = FillerOff

\* the check of the strategy: none throws before anything else
calculateInitialPositionsStart ==
  /\ calc.pc = "start"
  /\ calc' = IF calc.copyStrategy = "none"
               THEN [calc EXCEPT !.pc = "error",
                                 !.err = "Copy trade strategy is none"]
             ELSE IF calc.copiedTraderPositions = <<>>
               THEN [calc EXCEPT !.pc = "done"]
             ELSE [calc EXCEPT !.pc = "loop"]
  /\ UNCHANGED <<store, queue, alerts, inv, gate>>
  /\ UNCHANGED <<setup, portfolioConfig, ruleFiles, bus, filler>>

\* one turn of the loop: size the position, ask its price, add to the totals
calculateInitialPositionsNext ==
  /\ calc.pc = "loop"
  /\ LET k == Len(calc.calculatedInitialPositions) + 1
         c == calculateInitialPosition(calc.copiedTraderPositions[k],
                                       calc.copyStrategy)
     IN calc' = [calc EXCEPT
                   !.calculatedInitialPositions = Append(@, c),
                   !.totalQuantity = @ + c.quantity,
                   !.totalBuyPriceInEthers = @ + c.buyPriceInEthers,
                   !.priceRequests = @ + 1,
                   !.pc = IF k = Len(calc.copiedTraderPositions)
                            THEN "done" ELSE "loop"]
  /\ UNCHANGED <<store, queue, alerts, inv, gate>>
  /\ UNCHANGED <<setup, portfolioConfig, ruleFiles, bus, filler>>

\* the price request of a turn fails: the function rejects
calculateInitialPositionsPriceFails ==
  /\ calc.pc = "loop"
  /\ calc' = [calc EXCEPT !.pc = "error", !.err = "getBuyPrice failed",
                          !.priceRequests = @ + 1]
  /\ UNCHANGED <<store, queue, alerts, inv, gate>>
  /\ UNCHANGED <<setup, portfolioConfig, ruleFiles, bus, filler>>

NextSizing ==
  \/ calculateInitialPositionsStart
  \/ calculateInitialPositionsNext
  \/ calculateInitialPositionsPriceFails

SpecSizing == InitSizing /\ [][NextSizing]_vars

\* ------------------------------------------ setupCopyTradePortfolio.js
pipeline == <<store, queue, alerts, inv, gate>>

\* process.exit(code), or the end of the script
Exited(r, code) == [r EXCEPT !.pc = "exited", !.exitCode = code]
\* an error thrown inside setupCopyTradePortfolio(): the catch at the end of
\* the script logs it and the process ends
Caught(r, e) == [Exited(r, 0) EXCEPT !.err = e]

\* JSON.stringify(newPortfolioEntry) and JSON.parse of it
JSONStringify(entry) == <<"json", entry>>
JSONParse(text) == text[2]

\* the portfolioName prompt accepts the name: no portfolio of that name exists
SetupPromptName(s) ==
  /\ setup[s].pc = "promptName"
  /\ portfolioNameAccepted(portfolioConfig, setup[s].input.portfolioName)
  /\ setup' = [setup EXCEPT ![s].pc = "promptFleet"]
  /\ UNCHANGED <<pipeline, calc, portfolioConfig, ruleFiles, bus, filler>>

\* the other answers, readJsonFile(portfolioConfigPath), areAddressesUnique
SetupPromptAnswers(s) ==
  /\ setup[s].pc = "promptFleet"
  /\ LET r == [setup[s] EXCEPT !.existingPortfolioData = portfolioConfig]
     IN setup' = [setup EXCEPT ![s] =
                    IF ~ areAddressesUnique(r.input.keyFleet, portfolioConfig)
                      THEN Exited(r, 1)
                    ELSE [r EXCEPT !.pc = "getFullStore"]]
  /\ UNCHANGED <<pipeline, calc, portfolioConfig, ruleFiles, bus, filler>>

\* getFullStore of the copied trader, the positions read and sorted
SetupGetFullStore(s) ==
  /\ setup[s].pc = "getFullStore"
  /\ LET r == setup[s] IN
     setup' = [setup EXCEPT ![s] =
                 IF r.input.positions = <<>> THEN Exited(r, 1)
                 ELSE [r EXCEPT
                         !.newPortfolioEntry =
                           [NoEntry EXCEPT
                              !.portfolioName = r.input.portfolioName,
                              !.keyFleet = [k \in 1 .. Len(r.input.keyFleet) |->
                                              Trim(r.input.keyFleet[k])],
                              !.copiedTraderAddress = getAddress(Trim(CopiedTrader))],
                         !.copiedTraderCurrentPortfolioTemp =
                           SortByQuantityDesc(r.input.positions),
                         !.pc = "prompt2"]]
  /\ UNCHANGED <<pipeline, calc, portfolioConfig, ruleFiles, bus, filler>>

\* the copyTradeStrategy prompt and the branch on none
SetupChooseStrategy(s) ==
  /\ setup[s].pc = "prompt2"
  /\ setup' = [setup EXCEPT ![s].pc =
                 IF setup[s].input.copyTradeStrategy # "none" THEN "calc"
                 ELSE "writeNone"]
  /\ UNCHANGED <<pipeline, calc, portfolioConfig, ruleFiles, bus, filler>>

\* strategy none: the entry is pushed and written, the script ends
SetupWriteNone(s) ==
  /\ setup[s].pc = "writeNone"
  /\ LET r == setup[s]
         entry == [r.newPortfolioEntry EXCEPT !.copyTradeStrategy = "none"]
     IN /\ portfolioConfig' = Append(r.existingPortfolioData, entry)
        /\ setup' = [setup EXCEPT ![s] =
                       Exited([r EXCEPT !.newPortfolioEntry = entry,
                                        !.written = TRUE], 0)]
  /\ UNCHANGED <<pipeline, calc, ruleFiles, bus, filler>>

\* await CopyTradeUtil.calculateInitialPositions(...) returns
SetupCalculate(s) ==
  /\ setup[s].pc = "calc"
  /\ LET r == setup[s]
         c == [k \in 1 .. Len(r.copiedTraderCurrentPortfolioTemp) |->
                 calculateInitialPosition(r.copiedTraderCurrentPortfolioTemp[k],
                                          r.input.copyTradeStrategy)]
     IN setup' = [setup EXCEPT ![s] =
                    [r EXCEPT !.calculatedInitialPositions = c,
                              !.totalBuyPriceInEthers = SumOf(c, "buyPriceInEthers"),
                              !.pc = "prompt3"]]
  /\ UNCHANGED <<pipeline, calc, portfolioConfig, ruleFiles, bus, filler>>

\* await CopyTradeUtil.calculateInitialPositions(...) rejects: a price call
\* failed.  The spinner started before the call is never stopped: the process
\* ends after the catch, or its timer keeps the process alive
SetupCalculateFails(s) ==
  /\ setup[s].pc = "calc"
  /\ \E alive \in BOOLEAN :
       setup' = [setup EXCEPT ![s] =
                   IF alive THEN [setup[s] EXCEPT !.pc = "spinning",
                                                  !.err = "getBuyPrice failed"]
                   ELSE Caught(setup[s], "getBuyPrice failed")]
  /\ UNCHANGED <<pipeline, calc, portfolioConfig, ruleFiles, bus, filler>>

\* the stopLossPercent prompt; the entry is completed
SetupStopLoss(s) ==
  /\ setup[s].pc = "prompt3"
  /\ LET r == setup[s] IN
     /\ r.input.stopLossPercent >= minStopLossPercent
     /\ r.input.stopLossPercent <= maxStopLossPercent
     /\ setup' = [setup EXCEPT ![s] =
                    [r EXCEPT
                       !.newPortfolioEntry =
                         [@ EXCEPT
                            !.newPortfolioInitialPositions = r.calculatedInitialPositions,
                            !.initialPortfolioValuationEthers = r.totalBuyPriceInEthers,
                            !.stopLossPercent = r.input.stopLossPercent,
                            !.copyTradeStrategy = r.input.copyTradeStrategy],
                       !.pc = "writePortfolio"]]
  /\ UNCHANGED <<pipeline, calc, portfolioConfig, ruleFiles, bus, filler>>

\* a faulty step, for comparison: the entry is not written before the run goes on
SetupWritePortfolioSkipped(s) ==
  /\ setup[s].pc = "writePortfolio"
  /\ setup' = [setup EXCEPT ![s].pc = "readRules"]
  /\ UNCHANGED <<pipeline, calc, portfolioConfig, ruleFiles, bus, filler>>

\* existingPortfolioData.push(newPortfolioEntry); writeJsonFile(portfolioConfigPath)
SetupWritePortfolio(s) ==
  /\ setup[s].pc = "writePortfolio"
  /\ portfolioConfig' =
       Append(setup[s].existingPortfolioData, setup[s].newPortfolioEntry)
  /\ setup' = [setup EXCEPT ![s].written = TRUE, ![s].pc = "readRules"]
  /\ UNCHANGED <<pipeline, calc, ruleFiles, bus, filler>>

\* readJsonFile of buyRules.json and of sellRules.json; a file that cannot be
\* parsed throws
SetupReadRules(s) ==
  /\ setup[s].pc = "readRules"
  /\ setup' = [setup EXCEPT ![s] =
                 IF ~ ruleFiles.readable THEN Caught(setup[s], "SyntaxError")
                 ELSE [setup[s] EXCEPT !.buyRules = ruleFiles.buyRules,
                                       !.sellRules = ruleFiles.sellRules,
                                       !.pc = "writeRules"]]
  /\ UNCHANGED <<pipeline, calc, portfolioConfig, ruleFiles, bus, filler>>

\* the copy rules pushed onto the arrays read, unless a rule of the same hash
\* is in them; writeJsonFile of buyRules.json and of sellRules.json
SetupWriteRules(s) ==
  /\ setup[s].pc = "writeRules"
  /\ LET r == setup[s]
         name == r.input.portfolioName
         buyRules == PushRule(r.buyRules, copyBuyRule(name))
         sellRules == PushRule(r.sellRules, copySellRule(name))
     IN /\ ruleFiles' = [ruleFiles EXCEPT !.buyRules = buyRules,
                                          !.sellRules = sellRules]
        /\ setup' = [setup EXCEPT ![s].buyRules = buyRules,
                                  ![s].sellRules = sellRules,
                                  ![s].rulesWritten = TRUE,
                                  ![s].pc = "send"]
  /\ UNCHANGED <<pipeline, calc, portfolioConfig, bus, filler>>

\* the server for the acknowledgment listens; the fill request is emitted
SetupSendRequest(s) ==
  /\ setup[s].pc = "send"
  /\ LET payload == JSONStringify(setup[s].newPortfolioEntry)
     IN /\ bus' = [bus EXCEPT !.requests = Append(@, payload)]
        /\ setup' = [setup EXCEPT ![s].sent = Append(@, payload),
                                  ![s].pc = "sleep"]
  /\ UNCHANGED <<pipeline, calc, portfolioConfig, ruleFiles, filler>>

\* while (true) await new Promise(resolve => setTimeout(resolve, 1000))
SetupPoll(s) ==
  /\ setup[s].pc \in {"sleep", "wake"}
  /\ setup' = [setup EXCEPT ![s].pc = IF @ = "sleep" THEN "wake" ELSE "sleep"]
  /\ UNCHANGED <<pipeline, calc, portfolioConfig, ruleFiles, bus, filler>>

\* COPY_TRADE_BUY_POSITIONS_FILLED arrives: process.exit(0)
SetupAck(s) ==
  /\ setup[s].pc \in {"sleep", "wake"}
  /\ bus.acks > 0
  /\ bus' = [bus EXCEPT !.acks = @ - 1]
  /\ setup' = [setup EXCEPT ![s] = Exited([setup[s] EXCEPT !.ackReceived = TRUE], 0)]
  /\ UNCHANGED <<pipeline, calc, portfolioConfig, ruleFiles, filler>>

\* the steps of a run after the portfolioName prompt, up to the wait for the
\* acknowledgment
SetupAfterName(s) ==
  \/ SetupPromptAnswers(s)
  \/ SetupGetFullStore(s)
  \/ SetupChooseStrategy(s)
  \/ SetupWriteNone(s)
  \/ SetupCalculate(s)
  \/ SetupCalculateFails(s)
  \/ SetupStopLoss(s)
  \/ SetupWritePortfolio(s)
  \/ SetupReadRules(s)
  \/ SetupWriteRules(s)
  \/ SetupSendRequest(s)
  \/ SetupPoll(s)

\* the steps of a run up to the wait for the acknowledgment
SetupSteps(s) ==
  \/ SetupPromptName(s)
  \/ SetupAfterName(s)

\* ----------------------------------------- setup runs that may overlap
RunsPositions == {<<>>, <<Position("G", 1)>>}
RunsInputs ==
  {SetupInput(n, f, l, st, minStopLossPercent) :
     n \in PortfolioNameAnswers, f \in KeyFleetAnswers,
     l \in RunsPositions, st \in {"min", "none"}}

InitSetupRuns ==
  /\ store = ScenarioStore
  /\ queue = <<>>
  /\ alerts = [x \in Gamers \X Sides |-> 0]
  /\ inv = [i \in Invs |-> IdleInv]
  /\ gate = GateOff
  /\ calc = CalcOff
  /\ setup \in [Runs -> {[SetupOff EXCEPT !.pc = "promptName", !.input = x] :
                           x \in RunsInputs}]
  /\ portfolioConfig = <<>>
  /\ ruleFiles \in {RuleFilesEmpty, [RuleFilesEmpty EXCEPT !.readable = FALSE]}
  /\ bus = BusEmpty
  /\ filler = FillerOff

NextSetupRuns == \E s \in Runs : SetupSteps(s)

SpecSetupRuns == InitSetupRuns /\ [][NextSetupRuns]_vars

\* ----------------------------------------- setup runs one after the other
\* a run has made all its file operations
SetupFilesDone(s) == setup[s].pc \in {"exited", "spinning", "sleep", "wake"}

\* rule files as earlier runs and other tools may have left them
RuleFilesBefore ==
  {[buyRules |-> b, sellRules |-> sl, readable |-> TRUE] :
     b \in {<<>>, <<OtherRule("buyRule1")>>,
            <<OtherRule("buyRule1"), copyBuyRule("P")>>,
            <<copyBuyRule("P"), OtherRule("buyRule1")>>},
     sl \in {<<>>, <<copySellRule("P"), OtherRule("sellRule1")>>}}

SequenceInputs ==
  {SetupInput(n, f, l, st, minStopLossPercent) :
     n \in PortfolioNameAnswers, f \in {<<"0xAa">>, <<"0xBb">>},
     l \in RunsPositions, st \in {"min", "none"}}

InitSetupSequence ==
  /\ store = ScenarioStore
  /\ queue = <<>>
  /\ alerts = [x \in Gamers \X Sides |-> 0]
  /\ inv = [i \in Invs |-> IdleInv]
  /\ gate = GateOff
  /\ calc = CalcOff
  /\ setup \in [Runs -> {[SetupOff EXCEPT !.pc = "promptName", !.input = x] :
                           x \in SequenceInputs}]
  /\ portfolioConfig = <<>>
  /\ ruleFiles \in RuleFilesBefore \cup
                    {[RuleFilesEmpty EXCEPT !.readable = FALSE]}
  /\ bus = BusEmpty
  /\ filler = FillerOff

\* a run starts when the runs before it have made their file operations
SetupStart(s) ==
  /\ \A t \in Runs : t < s => SetupFilesDone(t)
  /\ SetupPromptName(s)

NextSetupSequence ==
  \E s \in Runs :
    \/ SetupStart(s)
    \/ SetupAfterName(s)

SpecSetupSequence == InitSetupSequence /\ [][NextSetupSequence]_vars

\* ----------------------------------------------------- copyTrader.js
\* the invocation the copy trader's rule engine dispatches
FillerSlot == 1

\* the copy trader process starts and subscribes (startCopyTrader)
FillerStart ==
  /\ ~ filler.running
  /\ filler' = [filler EXCEPT !.running = TRUE]
  /\ UNCHANGED <<pipeline, calc, setup, portfolioConfig, ruleFiles, bus>>

\* COPY_TRADE_BUY_FILL_POSITIONS arrives: newCopyTraderEvent starts
FillerReceive ==
  /\ filler.running
  /\ filler.pc = "idle"
  /\ bus.requests # <<>>
  /\ bus' = [bus EXCEPT !.requests = Tail(@)]
  /\ filler' = [filler EXCEPT !.pc = "loop",
                              !.portfolio = JSONParse(Head(bus.requests)),
                              !.k = 1, !.received = @ + 1,
                              !.invoked = <<>>, !.completed = 0, !.err = ""]
  /\ UNCHANGED <<pipeline, calc, setup, portfolioConfig, ruleFiles>>

\* a faulty rule, for comparison: copyBuy(COPY_QTY, false), a normal copy buy
FillerTriggerNormalBuy(portfolio, position) ==
  Trigger("copyBuy", position.gamer, portfolio.copiedTraderAddress,
          RawNumber(position.quantity), "true", portfolio.portfolioName, FALSE)

\* the rule copyTradeInitialFill of the position: copyBuy(COPY_QTY, true) with
\* ctx = {invokedBy, holder, isBuy: true, portfolio, gamer}
FillerTrigger(portfolio, position) ==
  Trigger("copyBuy", position.gamer, portfolio.copiedTraderAddress,
          RawNumber(position.quantity), "true", portfolio.portfolioName, TRUE)

\* one turn of the loop: await evaluateAndInvokeBuy(ctx, this.buyRules)
FillerEvaluate ==
  /\ filler.pc = "loop"
  /\ filler.k <= Len(filler.portfolio.newPortfolioInitialPositions)
  /\ LET position == filler.portfolio.newPortfolioInitialPositions[filler.k]
     IN /\ inv' = [inv EXCEPT ![FillerSlot] =
                     copyBuyImplEntered(FillerTrigger(filler.portfolio, position))]
        /\ filler' = [filler EXCEPT !.pc = "await",
                                    !.invoked = Append(@, position)]
  /\ UNCHANGED <<store, queue, alerts, gate>>
  /\ UNCHANGED <<calc, setup, portfolioConfig, ruleFiles, bus>>

\* the evaluation returns: the next turn; or it throws: the catch logs the
\* error and the handler ends
FillerResume ==
  /\ filler.pc = "await"
  /\ inv[FillerSlot].pc \in {"done", "error"}
  /\ filler' = IF inv[FillerSlot].pc = "error"
                 THEN [filler EXCEPT !.pc = "idle", !.err = inv[FillerSlot].err]
               ELSE [filler EXCEPT !.pc = "loop", !.k = @ + 1,
                                   !.completed = @ + 1]
  /\ UNCHANGED <<pipeline, calc, setup, portfolioConfig, ruleFiles, bus>>

\* after the loop: socket.emit(COPY_TRADE_BUY_POSITIONS_FILLED, "OK")
FillerEmit ==
  /\ filler.pc = "loop"
  /\ filler.k > Len(filler.portfolio.newPortfolioInitialPositions)
  /\ bus' = [bus EXCEPT !.acks = @ + 1]
  /\ filler' = [filler EXCEPT !.pc = "idle", !.acks = @ + 1,
                              !.ackAfter = filler.completed]
  /\ UNCHANGED <<pipeline, calc, setup, portfolioConfig, ruleFiles>>

Filler ==
  \/ FillerStart
  \/ FillerReceive
  \/ FillerEvaluate
  \/ FillerResume
  \/ FillerEmit

\* ------------------------------------------------------ the event bus
\* the channel delivers at most once: a message in flight may be lost
BusLoseRequest ==
  /\ bus.requests # <<>>
  /\ bus' = [bus EXCEPT !.requests = Tail(@)]
  /\ UNCHANGED <<pipeline, calc, setup, portfolioConfig, ruleFiles, filler>>

BusLoseAck ==
  /\ bus.acks > 0
  /\ bus' = [bus EXCEPT !.acks = @ - 1]
  /\ UNCHANGED <<pipeline, calc, setup, portfolioConfig, ruleFiles, filler>>

\* --------------------------- one setup run beside the copy trader
HandshakePositions ==
  {l \in CopiedTraderPositions :
     \A k \in 1 .. Len(l) : l[k].quantity \in {0, 1, 18}}
HandshakeInputs ==
  {SetupInput("P", <<"0xAa">>, l, st, p) :
     l \in HandshakePositions, st \in CopyStrategies,
     p \in {minStopLossPercent, maxStopLossPercent}}

\* a BUY order an action of the rule engine has left PENDING
PendingBuy(gamer) ==
  Order(gamer, "BUY", 1, "buyUpTo", "chainIndexer", NoHolder, NoPortfolioName)

InitHandshake ==
  /\ store = ScenarioStore
  /\ queue \in {<<>>, <<PendingBuy("G")>>}
  /\ alerts = [x \in Gamers \X Sides |-> 0]
  /\ inv = [i \in Invs |-> IdleInv]
  /\ gate = GateOff
  /\ calc = CalcOff
  /\ \E x \in HandshakeInputs :
       setup = [s \in Runs |->
                  IF s = 1 THEN [SetupOff EXCEPT !.pc = "promptName", !.input = x]
                  ELSE SetupOff]
  /\ portfolioConfig = <<>>
  /\ ruleFiles \in {RuleFilesEmpty, [RuleFilesEmpty EXCEPT !.readable = FALSE]}
  /\ bus = BusEmpty
  /\ filler \in {FillerOff, [FillerOff EXCEPT !.running = TRUE]}

NextHandshake ==
  \/ \E s \in Runs : SetupSteps(s)
  \/ \E s \in Runs : SetupAck(s)
  \/ Filler
  \/ \E i \in Invs : copyBuyImplPropose(i)
  \/ ConsumerResolve
  \/ BusLoseRequest
  \/ BusLoseAck

SpecHandshake == InitHandshake /\ [][NextHandshake]_vars

\* ------------- the copy trader beside the rule engine of the chain indexer
\* the invocation the chain indexer's rule engine dispatches
RuleEngineSlot == 2

\* a trade of the copied trader reaches the rule engine: a rule of buyRules.json
\* invoked by chainIndexer whose condition copyTrade(name) names a portfolio of
\* the config store dispatches its action copyBuy(COPY_QTY, flag), once
RuleEngineDispatch ==
  /\ inv[RuleEngineSlot].pc = "idle"
  /\ \E k \in 1 .. Len(ruleFiles.buyRules), n \in 1 .. Len(portfolioConfig) :
       LET rule == ruleFiles.buyRules[k]
           flag == rule.action = "copyBuy(COPY_QTY, true)"
           t == Trigger("copyBuy", "G", NoHolder, RawNumber(1), "true",
                        portfolioConfig[n].portfolioName, flag)
       IN /\ rule.invokeBy = "chainIndexer"
          /\ rule.expression = portfolioConfig[n].portfolioName
          /\ inv' = [inv EXCEPT ![RuleEngineSlot] =
                       [copyBuyImplEntered(t) EXCEPT !.ruleID = rule.ruleID,
                                                     !.invokedBy = "chainIndexer"]]
  /\ UNCHANGED <<store, queue, alerts, gate, coordinator>>

FillAndTradeInputs ==
  {SetupInput("P", <<"0xAa">>, l, st, minStopLossPercent) :
     l \in {<<Position("G", 1)>>, <<Position("G", 1), Position("G2", 1)>>,
            <<Position("G2", 18)>>},
     st \in {"min", "all", "none"}}

InitFillAndTrade ==
  /\ store = ScenarioStore
  /\ queue \in {<<>>, <<PendingBuy("G")>>}
  /\ alerts = [x \in Gamers \X Sides |-> 0]
  /\ inv = [i \in Invs |-> IdleInv]
  /\ gate = GateOff
  /\ calc = CalcOff
  /\ \E x \in FillAndTradeInputs :
       setup = [s \in Runs |->
                  IF s = 1 THEN [SetupOff EXCEPT !.pc = "promptName", !.input = x]
                  ELSE SetupOff]
  /\ portfolioConfig = <<>>
  /\ ruleFiles = RuleFilesEmpty
  /\ bus = BusEmpty
  /\ filler = FillerOff

NextFillAndTrade ==
  \/ \E s \in Runs : SetupSteps(s)
  \/ \E s \in Runs : SetupAck(s)
  \/ Filler
  \/ RuleEngineDispatch
  \/ \E i \in Invs : copyBuyImplGuard(i)
  \/ \E i \in Invs : copyBuyImplGuardMissing(i)
  \/ \E i \in Invs : copyBuyImplPropose(i)
  \/ \E i \in Invs : copyBuyImplAlertCheck(i)
  \/ \E i \in Invs : copyBuyImplAlert(i)
  \/ ConsumerResolve

SpecFillAndTrade == InitFillAndTrade /\ [][NextFillAndTrade]_vars

\* every process that can take a step eventually takes one: the setup script,
\* the copy trader and the invocation it awaits run on their own event loops
SpecHandshakeFair ==
  /\ SpecHandshake
  /\ WF_vars(\E s \in Runs : SetupSteps(s))
  /\ SF_vars(\E s \in Runs : SetupAck(s))
  /\ WF_vars(Filler)
  /\ WF_vars(\E i \in Invs : copyBuyImplPropose(i))

\* ------------------------------------------------- portfolioHelper.js
\* the portfolios whose keyFleet includes the checksummed, trimmed address
PortfoliosOfKeyFleetAddress(allPortfolios, address) ==
  SelectSeq(allPortfolios,
            LAMBDA p : getAddress(Trim(address)) \in Range(p.keyFleet))

\* findPortfolioByKeyFleetAddress: the first such portfolio, or null (NoEntry)
findPortfolioByKeyFleetAddress(allPortfolios, address) ==
  LET portfolio == PortfoliosOfKeyFleetAddress(allPortfolios, address)
  IN IF Len(portfolio) = 0 THEN NoEntry ELSE portfolio[1]

\* ----------------- the copy trader with fill requests that interleave
\* calls of startCopyTrader on the one CopyTrader instance
MaxStarts == 2

\* newCopyTraderEvent is async: the handler of a request runs up to its await
\* and the handler of the next request may start before it resumes.  Handler h
\* awaits invocation h.
Handlers == Invs

\* buyRulesPlaceholders with PORTFOLIO_NAME and COPY_QTY filled in
InitialFillRule(portfolioName, quantity) ==
  [ruleID |-> "copyTradeInitialFill", invokeBy |-> "copyTrader",
   expression |-> portfolioName, quantity |-> quantity]
\* this.buyRules before the first request
NoRules == InitialFillRule("", Undefined)

\* the locals of one call of newCopyTraderEvent: portfolio (and the ctx made
\* of it), the loop position k and the rules read for the evaluation
HandlerOff == [pc |-> "off", portfolio |-> NoEntry, k |-> 0, err |-> ""]

\* the instance: subscribedToCopyTradeEvents, the connection listeners that
\* io.on has registered, this.buyRules and the handlers in flight
CopyTraderOff ==
  [subscribedToCopyTradeEvents |-> FALSE, listeners |-> 0, starts |-> 0,
   buyRules |-> NoRules, handler |-> [h \in Handlers |-> HandlerOff],
   delivered |-> <<>>, handled |-> 0, acks |-> 0]

\* a faulty start, for comparison: startCopyTrader without the test of the flag
startCopyTraderNoFlag(ct) ==
  [ct EXCEPT !.listeners = @ + 1, !.subscribedToCopyTradeEvents = TRUE,
             !.starts = @ + 1]

\* startCopyTrader: returns when subscribed, else registers the listener
startCopyTrader(ct) ==
  IF ct.subscribedToCopyTradeEvents THEN [ct EXCEPT !.starts = @ + 1]
  ELSE [ct EXCEPT !.listeners = @ + 1, !.subscribedToCopyTradeEvents = TRUE,
                  !.starts = @ + 1]

CopyTraderStart ==
  /\ filler.starts < MaxStarts
  /\ filler' = startCopyTrader(filler)
  /\ UNCHANGED <<pipeline, calc, setup, portfolioConfig, ruleFiles, bus>>

\* COPY_TRADE_BUY_FILL_POSITIONS arrives on a connection: every registered
\* connection listener has bound newCopyTraderEvent to it, each call parses
\* the payload and enters its loop
HandlerReceive ==
  /\ filler.listeners > 0
  /\ bus.requests # <<>>
  /\ \E H \in SUBSET Handlers :
       /\ Cardinality(H) = filler.listeners
       /\ \A h \in H : filler.handler[h].pc \in {"off", "ended"}
       /\ filler' = [filler EXCEPT
                       !.handler = [h \in Handlers |->
                                      IF h \in H
                                        THEN [HandlerOff EXCEPT
                                                !.pc = "loop", !.k = 1,
                                                !.portfolio = JSONParse(Head(bus.requests))]
                                      ELSE @[h]],
                       !.delivered = Append(@, JSONParse(Head(bus.requests))),
                       !.handled = @ + Cardinality(H)]
  /\ bus' = [bus EXCEPT !.requests = Tail(@)]
  /\ UNCHANGED <<pipeline, calc, setup, portfolioConfig, ruleFiles>>

\* evaluateAndInvokeBuy(ctx, rules): the rule invoked by copyTrader dispatches
\* copyBuy(<quantity of the rule>, true) with the handler's ctx
HandlerTrigger(portfolio, position, rules) ==
  Trigger("copyBuy", position.gamer, portfolio.copiedTraderAddress,
          RawNumber(rules.quantity), "true", portfolio.portfolioName, TRUE)

\* a faulty turn, for comparison: `this.buyRules = await this.processBuyRules(..)`,
\* so that another handler may run between the assignment and the evaluation
HandlerEvaluateAwaited(h) ==
  LET r == filler.handler[h]
      position == r.portfolio.newPortfolioInitialPositions[r.k]
  IN \/ /\ r.pc = "loop"
        /\ r.k <= Len(r.portfolio.newPortfolioInitialPositions)
        /\ filler' = [filler EXCEPT
                        !.buyRules = InitialFillRule(r.portfolio.portfolioName,
                                                     position.quantity),
                        !.handler[h].pc = "assigned"]
        /\ UNCHANGED <<pipeline, calc, setup, portfolioConfig, ruleFiles, bus>>
     \/ /\ r.pc = "assigned"
        /\ inv' = [inv EXCEPT ![h] =
                     copyBuyImplEntered(
                       HandlerTrigger(r.portfolio, position, filler.buyRules))]
        /\ filler' = [filler EXCEPT !.handler[h].pc = "await"]
        /\ UNCHANGED <<store, queue, alerts, gate>>
        /\ UNCHANGED <<calc, setup, portfolioConfig, ruleFiles, bus>>

\* one turn of the loop, up to the await: this.buyRules is assigned and read
\* for the call of evaluateAndInvokeBuy with no await in between
HandlerEvaluate(h) ==
  LET r == filler.handler[h]
      position == r.portfolio.newPortfolioInitialPositions[r.k]
      buyRules == InitialFillRule(r.portfolio.portfolioName, position.quantity)
  IN /\ r.pc = "loop"
     /\ r.k <= Len(r.portfolio.newPortfolioInitialPositions)
     /\ inv' = [inv EXCEPT ![h] =
                  copyBuyImplEntered(HandlerTrigger(r.portfolio, position, buyRules))]
     /\ filler' = [filler EXCEPT !.buyRules = buyRules,
                                 !.handler[h].pc = "await"]
     /\ UNCHANGED <<store, queue, alerts, gate>>
     /\ UNCHANGED <<calc, setup, portfolioConfig, ruleFiles, bus>>

\* the evaluation returns: the next turn; or it throws: the catch logs it
HandlerResume(h) ==
  /\ filler.handler[h].pc = "await"
  /\ inv[h].pc \in {"done", "error"}
  /\ filler' = [filler EXCEPT !.handler[h] =
                  IF inv[h].pc = "error"
                    THEN [@ EXCEPT !.pc = "ended", !.err = inv[h].err]
                  ELSE [@ EXCEPT !.pc = "loop", !.k = @ + 1]]
  /\ UNCHANGED <<pipeline, calc, setup, portfolioConfig, ruleFiles, bus>>

\* after the loop: socket.emit(COPY_TRADE_BUY_POSITIONS_FILLED, "OK")
HandlerEmit(h) ==
  /\ filler.handler[h].pc = "loop"
  /\ filler.handler[h].k
       > Len(filler.handler[h].portfolio.newPortfolioInitialPositions)
  /\ bus' = [bus EXCEPT !.acks = @ + 1]
  /\ filler' = [filler EXCEPT !.handler[h].pc = "ended", !.acks = @ + 1]
  /\ UNCHANGED <<pipeline, calc, setup, portfolioConfig, ruleFiles>>

\* the fill request a setup run sends for a portfolio
FillRequest(portfolioName, keyFleet, positions) ==
  JSONStringify(
    PortfolioEntry(portfolioName, keyFleet, getAddress(Trim(CopiedTrader)),
                   [k \in 1 .. Len(positions) |->
                      calculateInitialPosition(positions[k], "all")],
                   SumOf(positions, "quantity"), minStopLossPercent, "all"))

\* two setup runs, for portfolios P and Q, have sent their requests
RequestPairs ==
  {<<FillRequest("P", <<"0xAa">>, a), FillRequest("Q", <<"0xBb">>, b)>> :
     a \in {<<Position("G", 1)>>, <<Position("G", 1), Position("G2", 1)>>},
     b \in {<<Position("G2", 2)>>, <<Position("G", 2)>>,
            <<Position("G2", 2), Position("G", 2)>>}}

InitCopyTrader ==
  /\ store = ScenarioStore
  /\ queue = <<>>
  /\ alerts = [x \in Gamers \X Sides |-> 0]
  /\ inv = [i \in Invs |-> IdleInv]
  /\ gate = GateOff
  /\ calc = CalcOff
  /\ setup = [s \in Runs |-> SetupOff]
  /\ portfolioConfig = <<>>
  /\ ruleFiles = RuleFilesEmpty
  /\ \E pair \in RequestPairs :
       bus \in {[BusEmpty EXCEPT !.requests = pair],
                [BusEmpty EXCEPT !.requests = <<pair[2], pair[1]>>]}
  /\ filler = CopyTraderOff

NextCopyTrader ==
  \/ CopyTraderStart
  \/ HandlerReceive
  \/ \E h \in Handlers : HandlerEvaluate(h)
  \/ \E h \in Handlers : HandlerResume(h)
  \/ \E h \in Handlers : HandlerEmit(h)
  \/ \E i \in Invs : copyBuyImplPropose(i)
  \/ ConsumerResolve

SpecCopyTrader == InitCopyTrader /\ [][NextCopyTrader]_vars

\* ------------------------------ the placeholders of copyTrader.js
\* A text is a sequence of pieces; a placeholder is a piece of its own, so a
\* search for it finds it wherever it stands in the text.
\* JSON.stringify(this.buyRulesPlaceholders)
buyRulesPlaceholders ==
  <<"[{ruleID:copyTradeInitialFill,invokeBy:[copyTrader],conditions:[{expression:copyTrade(",
    "PORTFOLIO_NAME", ")}],action:", "copyBuy(", "COPY_QTY", ", true)", "}]">>

\* JSON.stringify of the buy rule-set the setup script has written for a name
tradeRulesText(portfolioName) ==
  <<"[{ruleID:copyTradeBuy,invokeBy:[chainIndexer],conditions:[{expression:copyTrade(">>
    \o portfolioName
    \o <<")}],action:", "copyBuy(", "COPY_QTY", ", false)", "}]">>

\* String.prototype.replace with a string pattern: the first occurrence only
Replace(text, pattern, replacement) ==
  LET hits == {k \in 1 .. Len(text) : text[k] = pattern}
  IN IF hits = {} THEN text
     ELSE LET k == CHOOSE x \in hits : \A y \in hits : x <= y
          IN SubSeq(text, 1, k - 1) \o replacement \o SubSeq(text, k + 1, Len(text))

\* String.prototype.replaceAll: every occurrence
RECURSIVE ReplaceAll(_, _, _)
ReplaceAll(text, pattern, replacement) ==
  IF text = <<>> THEN <<>>
  ELSE (IF Head(text) = pattern THEN replacement ELSE <<Head(text)>>)
         \o ReplaceAll(Tail(text), pattern, replacement)

\* the rules of one loop turn of newCopyTraderEvent, as text
buyRulesFilled(portfolioName, quantity) ==
  Replace(Replace(buyRulesPlaceholders, "PORTFOLIO_NAME", portfolioName),
          "COPY_QTY", <<ToString(quantity)>>)

\* shimCopyTradeActionForQuantity(tradeRules, quantity), as text
shimCopyTradeActionForQuantity(tradeRules, quantity) ==
  ReplaceAll(tradeRules, "COPY_QTY", <<ToString(quantity)>>)

\* JSON.parse of a rule-set text: the name in conditions[0].expression and the
\* first argument of the action
IndexOf(text, piece) == CHOOSE k \in 1 .. Len(text) : text[k] = piece
ExpressionName(text) ==
  SubSeq(text, 2, IndexOf(text, ")}],action:") - 1)
ActionQuantity(text) ==
  SubSeq(text, IndexOf(text, ")}],action:") + 1, Len(text) - 1)

\* portfolio names the prompt accepts (any non-empty name that is not in use)
PlaceholderNames ==
  {<<"P">>, <<"Q">>, <<"PORTFOLIO_NAME">>, <<"PORTFOLIO_NAME", "_2">>,
   <<"COPY_QTY">>, <<"my_", "COPY_QTY", "_fund">>}

PlaceholdersOff ==
  [portfolioName |-> <<>>, quantity |-> 0,
   buyRules |-> <<>>, tradeRules |-> <<>>]

InitPlaceholders ==
  /\ store = ScenarioStore
  /\ queue = <<>>
  /\ alerts = [x \in Gamers \X Sides |-> 0]
  /\ inv = [i \in Invs |-> IdleInv]
  /\ gate = GateOff
  /\ calc = CalcOff
  /\ setup = [s \in Runs |-> SetupOff]
  /\ portfolioConfig = <<>>
  /\ ruleFiles = RuleFilesEmpty
  /\ bus = BusEmpty
  /\ \E n \in PlaceholderNames, q \in 1 .. MaxOrigQty :
       filler = [PlaceholdersOff EXCEPT !.portfolioName = n, !.quantity = q]

\* lines 78-80 of newCopyTraderEvent for the drawn name and quantity
PlaceholdersFill ==
  /\ filler.buyRules = <<>>
  /\ filler' = [filler EXCEPT
                  !.buyRules = buyRulesFilled(filler.portfolioName, filler.quantity)]
  /\ UNCHANGED <<pipeline, calc, setup, portfolioConfig, ruleFiles, bus>>

\* shimCopyTradeActionForQuantity on the persisted rule-set of the name
PlaceholdersShim ==
  /\ filler.tradeRules = <<>>
  /\ filler' = [filler EXCEPT
                  !.tradeRules = shimCopyTradeActionForQuantity(
                                   tradeRulesText(filler.portfolioName),
                                   filler.quantity)]
  /\ UNCHANGED <<pipeline, calc, setup, portfolioConfig, ruleFiles, bus>>

NextPlaceholders ==
  \/ PlaceholdersFill
  \/ PlaceholdersShim

SpecPlaceholders == InitPlaceholders /\ [][NextPlaceholders]_vars

\* ======================================================== the properties
CallsOf(r, op) == {k \in 1 .. Len(r.log) : r.log[k].op = op}
NumCalls(r, op) == Cardinality(CallsOf(r, op))
SideOf(kind) == IF kind \in {"buyUpTo", "copyBuy"} THEN "BUY" ELSE "SELL"
Finished(r) == r.pc \in {"done", "error"}
SellKinds == {"sellBit", "copySell", "sellAuto"}
GuardOps ==
  {"adjustBuyTargetAmount", "adjustSellTargetAmount",
   "adjustBuyTargetAmountToMeetConfiguredStopLoss"}
PendingOf(gamer, side, holder) ==
  {k \in 1 .. Len(queue) :
     /\ queue[k].status = "PENDING"
     /\ queue[k].gamer = gamer
     /\ queue[k].side = side
     /\ queue[k].holder = holder}
SettledOf(gamer, side, holder) ==
  {k \in 1 .. Len(queue) :
     /\ queue[k].status # "PENDING"
     /\ queue[k].gamer = gamer
     /\ queue[k].side = side
     /\ queue[k].holder = holder}
\* invocation i has called proposeOrder for the triple
Proposed(i, gamer, side, holder) ==
  \E k \in CallsOf(inv[i], "proposeOrder") :
    /\ inv[i].log[k].gamer = gamer
    /\ inv[i].log[k].side = side
    /\ inv[i].log[k].holder = holder

\* C1: at most one PENDING order exists for any (subject, side, holder); when
\* two invocations have both proposed for the same triple and no order of the
\* triple has been resolved, exactly one PENDING order of the triple exists.
C1_AtMostOnePendingPerTriple ==
  /\ \A g \in Gamers, sd \in Sides, h \in Holders \cup {NoHolder} :
       Cardinality(PendingOf(g, sd, h)) <= 1
  /\ \A i, j \in Invs, g \in Gamers, sd \in Sides, h \in Holders \cup {NoHolder} :
       ( /\ i # j
         /\ Proposed(i, g, sd, h)
         /\ Proposed(j, g, sd, h)
         /\ SettledOf(g, sd, h) = {} )
       => Cardinality(PendingOf(g, sd, h)) = 1

\* two invocations proposed a SELL of G for holder H before either was resolved
C1_Witness ==
  \E i, j \in Invs :
    /\ i # j
    /\ Proposed(i, "G", "SELL", "H")
    /\ Proposed(j, "G", "SELL", "H")
    /\ SettledOf("G", "SELL", "H") = {}
    /\ inv[j].err = "DuplicateProposalError"

\* C2: guard evaluation and proposal creation are serialized per triple: never
\* are two invocations for the same (subject, side, holder) both between their
\* guard's read and their proposeOrder call.
C2_GuardToProposeSerialized ==
  \A i, j \in Invs :
    ( /\ i # j
      /\ inv[i].pc = "propose"
      /\ inv[j].pc = "propose"
      /\ \E k \in 1 .. Len(inv[i].log) : inv[i].log[k].op \in GuardOps
      /\ \E k \in 1 .. Len(inv[j].log) : inv[j].log[k].op \in GuardOps )
    => ~ ( /\ inv[i].gamer = inv[j].gamer
           /\ SideOf(inv[i].kind) = SideOf(inv[j].kind)
           /\ inv[i].holder = inv[j].holder )

\* C3: an invocation calls proposeOrder exactly when its adjusted quantity is
\* > 0, once, with that quantity and the side of its action, and never both
\* proposes and raises an alert.
C3_ProposeIffAdjustedPositive ==
  \A i \in Invs :
    LET r == inv[i] IN
    /\ NumCalls(r, "proposeOrder") <= 1
    /\ \A k \in CallsOf(r, "proposeOrder") :
         /\ JsGt(r.adjustedQuantity, 0)
         /\ r.log[k].quantity = r.adjustedQuantity
         /\ r.log[k].side = SideOf(r.kind)
         /\ r.log[k].gamer = r.gamer
    /\ Finished(r) => (NumCalls(r, "proposeOrder") = 1 <=> JsGt(r.adjustedQuantity, 0))
    /\ ~ (NumCalls(r, "proposeOrder") > 0 /\ NumCalls(r, "raiseAlert") > 0)

\* one invocation has proposed its adjusted quantity, another one ended with an
\* alert on a guard result of 0
C3_Witness ==
  \E i, j \in Invs :
    /\ inv[i].pc = "done" /\ NumCalls(inv[i], "proposeOrder") = 1
    /\ inv[j].pc = "done" /\ inv[j].adjustedQuantity = 0
    /\ NumCalls(inv[j], "raiseAlert") = 1

\* C4, as amended: an invocation whose guard returned 0 raises no alert when the
\* PENDING quantity of its subject and side (for a sell action: and of its
\* holder) was 0 at its check, exactly one alert when it was > 0.
C4_AlertIffPendingOfHolder ==
  \A i \in Invs :
    LET r == inv[i] IN
    (r.pc = "done" /\ NumCalls(r, "getProposedSum") = 1)
    => /\ NumCalls(r, "raiseAlert") = (IF r.pendingOfHolder > 0 THEN 1 ELSE 0)
       /\ \A k \in CallsOf(r, "raiseAlert") :
            r.log[k].gamer = r.gamer /\ r.log[k].side = SideOf(r.kind)

\* a sell action ended with one alert, a PENDING order of its holder waiting
C4_Witness ==
  \E i \in Invs :
    /\ inv[i].kind \in SellKinds
    /\ inv[i].pc = "done"
    /\ inv[i].pendingOfHolder > 0
    /\ NumCalls(inv[i], "raiseAlert") = 1

\* C4 as stated: the alert follows getProposedSum(subject, side), the PENDING
\* quantity of the subject and side whatever the holder.
C4_AlertIffPendingOfSubjectAndSide ==
  \A i \in Invs :
    LET r == inv[i] IN
    (r.pc = "done" /\ NumCalls(r, "getProposedSum") = 1)
    => NumCalls(r, "raiseAlert") = (IF r.pendingAnyHolder > 0 THEN 1 ELSE 0)

\* C5: the SELL order sellBitImpl proposes has quantity min(q, B), B the stored
\* balance of (holder, subject) and q the requested quantity; with B = 10 and
\* q = 12 and no pending proposal: one PENDING SELL order for (G, H) of
\* quantity 10, and a log entry with the adjusted quantity.
C5_SellBitProposesMinOfRequestAndBalance ==
  \A i \in Invs :
    LET r == inv[i] IN
    r.kind = "sellBit"
    => /\ \A k \in CallsOf(r, "proposeOrder") :
            /\ r.log[k].quantity = Min(r.quantity, r.balanceRead)
            /\ r.log[k].side = "SELL"
            /\ r.log[k].gamer = r.gamer
            /\ r.log[k].holder = r.holder
       /\ (r.pc = "done" /\ JsGt(r.quantity, 0) /\ JsGt(r.balanceRead, 0))
            => NumCalls(r, "proposeOrder") = 1
       /\ ( /\ r.pc = "done" /\ r.gamer = "G" /\ r.holder = "H"
            /\ r.quantity = 12 /\ r.balanceRead = 10
            /\ SettledOf("G", "SELL", "H") = {} )
            => /\ Cardinality(PendingOf("G", "SELL", "H")) = 1
               /\ \A k \in PendingOf("G", "SELL", "H") :
                    queue[k].quantity = 10 /\ queue[k].ruleID = "sellBitThreshold"
               /\ \E k \in CallsOf(r, "logInfo") : r.log[k].quantity = 10

\* the scenario: balance 10, request 12, the order of 10 is PENDING
C5_Witness ==
  \E i \in Invs :
    /\ inv[i].kind = "sellBit" /\ inv[i].pc = "done"
    /\ inv[i].gamer = "G" /\ inv[i].holder = "H"
    /\ inv[i].quantity = 12 /\ inv[i].balanceRead = 10
    /\ \E k \in PendingOf("G", "SELL", "H") : queue[k].quantity = 10

\* C6: never oversell under concurrency: when a sell action appends its order,
\* the PENDING SELL quantity of (subject, holder) does not exceed the holder's
\* stored balance of the subject.
C6_PendingSellWithinStoredBalance ==
  [][\A i \in Invs :
       ( /\ inv[i].kind \in SellKinds
         /\ inv[i].pc = "propose"
         /\ inv'[i].pc = "done" )
       => SumPending(queue', inv[i].gamer, "SELL", inv[i].holder)
            <= store'[inv[i].holder][inv[i].gamer]]_vars

\* C7, as amended: with stopLossPercent = 5 the gate returns the requested
\* quantity for currentPandLPercent = 4 and for 6; it returns 0 once the loss
\* reaches the stop loss (currentPandLPercent = -5 or -6).
C7_StopLossGateExample ==
  ( /\ gate.phase = "out"
    /\ gate.stopLossPercent = 5
    /\ gate.pandLResults.hasTotal )
  => /\ gate.pandLResults.percentProfit \in {4, 6} => gate.result = gate.quantity
     /\ gate.pandLResults.percentProfit \in {0 - 5, 0 - 6} => gate.result = 0

\* the gate has been evaluated on stopLossPercent = 5, currentPandLPercent = 4
C7_Witness ==
  /\ gate.phase = "out"
  /\ gate.stopLossPercent = 5
  /\ gate.pandLResults = PandLReport(4)
  /\ gate.result = gate.quantity

\* C7 as stated: stopLossPercent = 5 and currentPandLPercent = 4 give 0,
\* currentPandLPercent = 6 gives the requested quantity.
C7_StopLossGateExampleAsStated ==
  ( /\ gate.phase = "out"
    /\ gate.stopLossPercent = 5
    /\ gate.pandLResults.hasTotal )
  => /\ gate.pandLResults.percentProfit = 4 => gate.result = 0
     /\ gate.pandLResults.percentProfit = 6 => gate.result = gate.quantity

\* C8: the gate returns 0 or the requested quantity; with s the stop loss made
\* negative (p and -p alike) and c the report's total percentProfit (0 without
\* a report entry) it returns 0 exactly when s >= c; without a report entry it
\* passes for every stopLossPercent in [1, 10].
C8_StopLossGateIsPassFail ==
  gate.phase = "out"
  => LET p == gate.stopLossPercent
         s == IF p >= 0 THEN 0 - p ELSE p
         c == IF gate.pandLResults.hasTotal THEN gate.pandLResults.percentProfit
              ELSE 0
     IN /\ gate.result \in {0, gate.quantity}
        /\ gate.result = 0 <=> s >= c
        /\ ( /\ ~ gate.pandLResults.hasTotal
             /\ p >= minStopLossPercent
             /\ p <= maxStopLossPercent ) => gate.result = gate.quantity

\* the gate has passed a request without a report entry
C8_Witness ==
  /\ gate.phase = "out"
  /\ ~ gate.pandLResults.hasTotal
  /\ gate.stopLossPercent = maxStopLossPercent
  /\ gate.result = gate.quantity

\* C9: a normal copy buy (isBuy, portfolio, q > 0, not an initial fill) proposes
\* a BUY order of quantity q when the current P&L percent is above the negative
\* stop-loss threshold of the portfolio, and nothing when it is breached.
C9_CopyBuyProposesAboveStopLoss ==
  \A i \in Invs :
    LET r == inv[i] IN
    ( /\ r.kind = "copyBuy"
      /\ ~ r.isInitialFill
      /\ JsGt(r.quantity, 0)
      /\ Finished(r)
      /\ NumCalls(r, "adjustBuyTargetAmountToMeetConfiguredStopLoss") = 1 )
    => IF currentPandLPercentage(r.pandL) > 0 - Portfolio(r.portfolio).stopLossPercent
       THEN \E k \in CallsOf(r, "proposeOrder") :
              r.log[k].side = "BUY" /\ r.log[k].quantity = r.quantity
       ELSE NumCalls(r, "proposeOrder") = 0

\* C10: with a requested BUY quantity q <= 0 neither buy action invokes the
\* guard, asks for the proposed sum, raises an alert or proposes an order.
C10_NoGuardForNonPositiveBuy ==
  \A i \in Invs :
    LET r == inv[i] IN
    (r.kind \in {"buyUpTo", "copyBuy"} /\ JsLe(r.quantity, 0))
    => r.log = <<>>

\* C11: a copy action invoked with a malformed ctx (no portfolio, or a quantity
\* that is non-positive or not a number) ends with an error, whatever isBuy
\* is, and calls neither the guard, proposeOrder, getProposedSum nor raiseAlert.
C11_MalformedCopyFailsFast ==
  \A i \in Invs :
    LET r == inv[i] IN
    ( /\ r.kind \in {"copyBuy", "copySell"}
      /\ \/ r.portfolio = NoPortfolio
         \/ ~ IsNum(r.quantity)
         \/ JsLe(r.quantity, 0) )
    => /\ r.pc = "error"
       /\ \A k \in 1 .. Len(r.log) :
            r.log[k].op \notin
              GuardOps \cup {"proposeOrder", "getProposedSum", "raiseAlert"}

\* C12: calculateInitialPositions sizes every copied position of original
\* quantity n as 1 under min, ceil(n/2) under mid and n under all (1, 4 and 7
\* for n = 7); under none it raises an error before any price is requested.
C12_CopyStrategySizing ==
  /\ \A k \in 1 .. Len(calc.calculatedInitialPositions) :
       LET n == calc.copiedTraderPositions[k].quantity
           q == calc.calculatedInitialPositions[k].quantity
       IN /\ calc.calculatedInitialPositions[k].gamer
               = calc.copiedTraderPositions[k].gamer
          /\ calc.copyStrategy = "min" => q = 1
          /\ calc.copyStrategy = "mid" => 2 * q >= n /\ 2 * (q - 1) < n
          /\ calc.copyStrategy = "all" => q = n
          /\ (calc.copyStrategy = "mid" /\ n = 7) => q = 4
  /\ calc.pc = "done"
       => Len(calc.calculatedInitialPositions) = Len(calc.copiedTraderPositions)
  /\ (calc.copyStrategy = "none" /\ calc.pc \notin {"off", "start"})
       => /\ calc.pc = "error"
          /\ calc.priceRequests = 0
          /\ calc.calculatedInitialPositions = <<>>

\* a position of 7 bits has been sized under mid
C12_Witness ==
  /\ calc.pc = "done"
  /\ calc.copyStrategy = "mid"
  /\ \E k \in 1 .. Len(calc.calculatedInitialPositions) :
       /\ calc.copiedTraderPositions[k].quantity = 7
       /\ calc.calculatedInitialPositions[k].quantity = 4

\* the orders the initial-fill rule has put in the queue
InitialFillOrders == {k \in 1 .. Len(queue) : queue[k].ruleID = "copyTradeInitialFill"}
\* the request the copy trader works on has the single target position (G, 9)
\* and no other rule has proposed an order
SingleTargetScenario ==
  /\ filler.received = 1
  /\ Len(filler.portfolio.newPortfolioInitialPositions) = 1
  /\ filler.portfolio.newPortfolioInitialPositions[1].gamer = "G"
  /\ filler.portfolio.newPortfolioInitialPositions[1].quantity = 9
  /\ \A k \in 1 .. Len(queue) : queue[k].ruleID = "copyTradeInitialFill"

\* C13: on a fill request for a portfolio with the single target position
\* (G, 9) the copy trader evaluates one initial-fill rule, the evaluation
\* bypasses the stop-loss guard (no store or P&L read), the queue receives
\* exactly one BUY order for G of quantity 9, and the copy trader then emits
\* exactly one acknowledgment.
C13_InitialFillScenario ==
  SingleTargetScenario
  => /\ Len(filler.invoked) <= 1
     /\ filler.acks <= 1
     /\ Cardinality(InitialFillOrders) <= 1
     /\ filler.pc = "await"
          => /\ inv[FillerSlot].isInitialFill
             /\ inv[FillerSlot].pc \in {"propose", "done"}
             /\ \A k \in 1 .. Len(inv[FillerSlot].log) :
                  inv[FillerSlot].log[k].op \in {"proposeOrder", "logInfo"}
     /\ filler.acks = 1 => Cardinality(InitialFillOrders) = 1
     /\ filler.pc = "idle"
          => /\ Len(filler.invoked) = 1
             /\ filler.acks = 1
             /\ filler.ackAfter = 1
             /\ \E k \in InitialFillOrders :
                  /\ queue[k].gamer = "G"
                  /\ queue[k].side = "BUY"
                  /\ queue[k].quantity = 9
                  /\ queue[k].invokedBy = "copyTrader"

\* the scenario has run to its end for a portfolio created with mid
C13_Witness ==
  /\ SingleTargetScenario
  /\ filler.pc = "idle"
  /\ filler.acks = 1
  /\ setup[1].input.copyTradeStrategy = "mid"
  /\ \E k \in InitialFillOrders : queue[k].quantity = 9 /\ queue[k].status = "PENDING"

\* C14: for every fill request it receives the copy trader evaluates a buy for
\* every position of newPortfolioInitialPositions, one at a time in list
\* order, and sends exactly one acknowledgment, never before the evaluation of
\* the last position has completed.
C14_FillerAcksEveryRequest ==
  LET positions == filler.portfolio.newPortfolioInitialPositions IN
  /\ filler.acks <= filler.received
  /\ Len(filler.invoked) <= Len(positions)
  /\ \A k \in 1 .. Len(filler.invoked) : filler.invoked[k] = positions[k]
  /\ filler.acks > 0 => filler.ackAfter = Len(positions)
  /\ (filler.received > 0 /\ filler.pc = "idle")
       => /\ filler.acks = filler.received
          /\ filler.invoked = positions
          /\ filler.completed = Len(positions)

\* C15: once a setup run has sent the fill request it eventually terminates,
\* also when the request or the acknowledgment is lost, when the copy trader
\* is not running and when the evaluation of a position fails.
C15_InitializerTerminates ==
  \A s \in Runs : (setup[s].sent # <<>>) ~> (setup[s].pc = "exited")

\* C16: a setup run ends with exit code 0 only after it has received the
\* positions-filled acknowledgment, whatever the copy strategy and whatever
\* error is thrown.
C16_ExitZeroOnlyAfterAck ==
  \A s \in Runs :
    (setup[s].pc = "exited" /\ setup[s].exitCode = 0) => setup[s].ackReceived

\* C17: a setup run that fails before the acknowledgment (fleet addresses not
\* unique, no positions of the copied trader, a failing price call, an
\* unreadable rule file) exits non-zero and has written neither the portfolio
\* config file nor the rule files.
C17_FailureExitsNonZeroWithoutWrites ==
  \A s \in Runs :
    ( /\ setup[s].pc \in {"exited", "spinning"}
      /\ ~ setup[s].ackReceived
      /\ setup[s].exitCode = 1 \/ setup[s].err # "" )
    => /\ setup[s].pc = "exited"
       /\ setup[s].exitCode # 0
       /\ ~ setup[s].written
       /\ ~ setup[s].rulesWritten
       /\ portfolioConfig = <<>>
       /\ ruleFiles.buyRules = <<>>
       /\ ruleFiles.sellRules = <<>>

\* C18: the fill request is sent only after the new Portfolio record has been
\* written to the portfolio config store and the copy rules to the rule files;
\* its payload is that record, newPortfolioInitialPositions included; a run
\* sends at most one fill request
C18_RequestAfterPersist ==
  [][\A s \in Runs :
       LET name == setup[s].input.portfolioName
           entry == setup[s].newPortfolioEntry
       IN /\ (setup'[s].written /\ ~ setup[s].written) =>
               /\ portfolioConfig' # <<>>
               /\ portfolioConfig'[Len(portfolioConfig')] =
                    setup'[s].newPortfolioEntry
          /\ setup[s].written =>
               /\ setup'[s].written
               /\ setup'[s].newPortfolioEntry = entry
          /\ (setup'[s].rulesWritten /\ ~ setup[s].rulesWritten) =>
               /\ copyBuyRule(name) \in Range(ruleFiles'.buyRules)
               /\ copySellRule(name) \in Range(ruleFiles'.sellRules)
          /\ setup'[s].sent # setup[s].sent =>
               /\ setup[s].sent = <<>>
               /\ setup[s].written
               /\ setup[s].rulesWritten
               /\ setup'[s].sent = <<JSONStringify(entry)>>
               /\ bus'.requests = Append(bus.requests, JSONStringify(entry))
               /\ JSONParse(setup'[s].sent[1]) = entry
               /\ entry.portfolioName = name
               /\ entry.newPortfolioInitialPositions =
                    setup[s].calculatedInitialPositions
  ]_vars

C18_Witness ==
  \E s \in Runs :
    /\ setup[s].sent # <<>>
    /\ Len(portfolioConfig) = 1
    /\ JSONParse(setup[s].sent[1]).newPortfolioInitialPositions # <<>>
    /\ filler.received > 0

\* C19: no wallet address is in the keyFleet of two persisted portfolios, nor
\* twice in one, addresses that differ only by surrounding whitespace or
\* letter case being the same address
C19_KeyFleetAddressesUnique ==
  \A k1, k2 \in 1 .. Len(portfolioConfig) :
    \A i1 \in 1 .. Len(portfolioConfig[k1].keyFleet) :
      \A i2 \in 1 .. Len(portfolioConfig[k2].keyFleet) :
        getAddress(Trim(portfolioConfig[k1].keyFleet[i1])) =
          getAddress(Trim(portfolioConfig[k2].keyFleet[i2]))
        => (k1 = k2 /\ i1 = i2)

\* C20: the portfolio name is a unique key of the portfolio config store: no
\* two persisted records have the same trimmed portfolioName
C20_PortfolioNameUnique ==
  \A k1, k2 \in 1 .. Len(portfolioConfig) :
    Trim(portfolioConfig[k1].portfolioName) =
      Trim(portfolioConfig[k2].portfolioName)
    => k1 = k2

\* C21: the portfolio config store is append-only: no step of a setup run
\* removes or changes a record that is in the store, also when two runs
\* overlap (both read the store before either writes)
C21_PortfolioConfigAppendOnly ==
  [][/\ Len(portfolioConfig') >= Len(portfolioConfig)
     /\ \A k \in 1 .. Len(portfolioConfig) :
          portfolioConfig'[k] = portfolioConfig[k]]_vars

Count(seq, x) == Cardinality({k \in 1 .. Len(seq) : seq[k] = x})
IsPrefix(a, b) == Len(a) <= Len(b) /\ \A k \in 1 .. Len(a) : a[k] = b[k]

\* C22: the generated copy rules are appended idempotently: a rule equal to
\* one in the rule-set is not added again, so after any number of setup runs
\* each rule-set holds the generated rule of a portfolio exactly once, and
\* every write keeps the rules that were there, in their order
C22_RulesAppendedIdempotently ==
  /\ [](\A s \in Runs :
          setup[s].rulesWritten =>
            /\ Count(ruleFiles.buyRules,
                     copyBuyRule(setup[s].input.portfolioName)) = 1
            /\ Count(ruleFiles.sellRules,
                     copySellRule(setup[s].input.portfolioName)) = 1)
  /\ [][/\ IsPrefix(ruleFiles.buyRules, ruleFiles'.buyRules)
        /\ IsPrefix(ruleFiles.sellRules, ruleFiles'.sellRules)
        /\ Len(ruleFiles'.buyRules) <= Len(ruleFiles.buyRules) + 1
        /\ Len(ruleFiles'.sellRules) <= Len(ruleFiles.sellRules) + 1]_vars

\* C23: ruleID is unique within its rule-set: no two rules of the buy
\* rule-set and no two rules of the sell rule-set have the same ruleID
C23_RuleIDUnique ==
  /\ \A k1, k2 \in 1 .. Len(ruleFiles.buyRules) :
       ruleFiles.buyRules[k1].ruleID = ruleFiles.buyRules[k2].ruleID => k1 = k2
  /\ \A k1, k2 \in 1 .. Len(ruleFiles.sellRules) :
       ruleFiles.sellRules[k1].ruleID = ruleFiles.sellRules[k2].ruleID => k1 = k2

\* C24: the initial-fill rule is one-shot and keyed to one portfolio: an order
\* with ruleID copyTradeInitialFill is proposed only by the invocation the copy
\* trader awaits while it works on a fill request, for the position at hand
\* and with the portfolio name of the request, at most once per position; the
\* rule is never in the rule files, and an invocation dispatched for
\* chainIndexer never proposes an order with that ruleID
C24_InitialFillOneShot ==
  /\ [](/\ \A k \in 1 .. Len(ruleFiles.buyRules) :
            /\ ruleFiles.buyRules[k].ruleID # "copyTradeInitialFill"
            /\ ruleFiles.buyRules[k].action # "copyBuy(COPY_QTY, true)"
        /\ \A k \in 1 .. Len(ruleFiles.sellRules) :
            ruleFiles.sellRules[k].ruleID # "copyTradeInitialFill"
        /\ \A k \in 1 .. Len(queue) :
            queue[k].invokedBy = "chainIndexer"
              => queue[k].ruleID # "copyTradeInitialFill"
        /\ Cardinality(InitialFillOrders) <= Len(filler.invoked)
        /\ \A k1, k2 \in InitialFillOrders :
            queue[k1].gamer = queue[k2].gamer => k1 = k2)
  /\ [][\A k \in 1 .. Len(queue') :
          (k > Len(queue) /\ queue'[k].ruleID = "copyTradeInitialFill") =>
            /\ filler.pc = "await"
            /\ inv[FillerSlot].pc = "propose"
            /\ inv'[FillerSlot].pc = "done"
            /\ queue'[k].invokedBy = "copyTrader"
            /\ queue'[k].portfolioName = filler.portfolio.portfolioName
            /\ queue'[k].gamer =
                 filler.portfolio.newPortfolioInitialPositions[filler.k].gamer
            /\ queue'[k].quantity =
                 filler.portfolio.newPortfolioInitialPositions[filler.k].quantity
       ]_vars

\* after the fill was acknowledged a trade of the copied trader has been
\* dispatched through the rule copyTradeBuy and its invocation has ended
C24_Witness ==
  /\ filler.acks = 1
  /\ InitialFillOrders # {}
  /\ inv[RuleEngineSlot].pc = "done"
  /\ inv[RuleEngineSlot].ruleID = "copyTradeBuy"
  /\ inv[RuleEngineSlot].invokedBy = "chainIndexer"
  /\ ~ inv[RuleEngineSlot].isInitialFill

\* C25: every proposeOrder call of an action carries a positive integer
\* quantity, and every order in the queue has quantity > 0, whatever quantity
\* (zero, negative, not a number, missing) the trigger requested
C25_ProposedQuantityPositive ==
  /\ \A i \in Invs :
       \A k \in CallsOf(inv[i], "proposeOrder") :
         /\ IsNum(inv[i].log[k].quantity)
         /\ inv[i].log[k].quantity \in Nat
         /\ inv[i].log[k].quantity > 0
  /\ \A k \in 1 .. Len(queue) :
       /\ IsNum(queue[k].quantity)
       /\ queue[k].quantity \in Nat
       /\ queue[k].quantity > 0

\* an invocation asked for a quantity that is not positive has ended beside
\* one that has proposed an order
C25_Witness ==
  \E i, j \in Invs :
    /\ Finished(inv[i])
    /\ inv[i].kind # "none"
    /\ ~ IsNum(inv[i].quantity) \/ JsLe(inv[i].quantity, 0)
    /\ NumCalls(inv[i], "proposeOrder") = 0
    /\ inv[j].pc = "done"
    /\ NumCalls(inv[j], "proposeOrder") = 1
    /\ queue # <<>>

\* C26: a guard rejection is a normal outcome: an invocation whose adjusted
\* quantity is 0 ends without an error and without a proposeOrder call, and
\* none of its steps after the guard (the proposed-sum check, the alert)
\* changes the queue
C26_GuardRejectionIsNormal ==
  /\ [](\A i \in Invs :
          (inv[i].adjustedQuantity = 0 /\ Finished(inv[i])) =>
            /\ inv[i].pc = "done"
            /\ inv[i].err = ""
            /\ NumCalls(inv[i], "proposeOrder") = 0
            /\ NumCalls(inv[i], "getProposedSum") = 1
            /\ NumCalls(inv[i], "raiseAlert") <= 1)
  /\ [][\A i \in Invs :
          (inv[i].adjustedQuantity = 0 /\ inv'[i] # inv[i]) =>
            /\ queue' = queue
            /\ store' = store
            /\ inv'[i].pc \in {"alert", "done"}]_vars

\* a guard rejection has ended with an alert while an order was PENDING
C26_Witness ==
  \E i \in Invs :
    /\ inv[i].pc = "done"
    /\ inv[i].adjustedQuantity = 0
    /\ NumCalls(inv[i], "raiseAlert") = 1
    /\ \E k \in 1 .. Len(queue) : queue[k].status = "PENDING"

\* C27: when a guard, store or gateway call of an action fails, the action
\* ends with that error, has called neither proposeOrder nor raiseAlert, and
\* no step of it has changed the queue, the alerts or the Position Store, so
\* a later trigger for the same subject finds them as if the failed one had
\* not happened
C27_UpstreamErrorAborts ==
  /\ [](\A i \in Invs :
          inv[i].err = "UpstreamError" =>
            /\ inv[i].pc = "error"
            /\ NumCalls(inv[i], "proposeOrder") = 0
            /\ NumCalls(inv[i], "raiseAlert") = 0
            /\ NumCalls(inv[i], "logInfo") = 0)
  /\ [][\A i \in Invs :
          ( /\ inv'[i] # inv[i]
            /\ NumCalls(inv'[i], "proposeOrder") = NumCalls(inv[i], "proposeOrder")
            /\ NumCalls(inv'[i], "raiseAlert") = NumCalls(inv[i], "raiseAlert") )
          => /\ queue' = queue
             /\ alerts' = alerts
             /\ store' = store]_vars

\* the guard call of one invocation failed; another invocation for the same
\* subject has proposed its order, the only one in the queue
C27_Witness ==
  \E i, j \in Invs :
    /\ inv[i].err = "UpstreamError"
    /\ NumCalls(inv[i], "getProposedSum") = 0
    /\ inv[j].pc = "done"
    /\ inv[j].gamer = inv[i].gamer
    /\ NumCalls(inv[j], "proposeOrder") = 1
    /\ Len(queue) = 1
    /\ alerts = [x \in Gamers \X Sides |-> 0]

\* C28: every Portfolio record the setup flow has persisted, whatever the copy
\* strategy (min, mid, all, none), has a stopLossPercent in [1,10]
C28_PersistedStopLossInRange ==
  \A k \in 1 .. Len(portfolioConfig) :
    /\ IsNum(portfolioConfig[k].stopLossPercent)
    /\ portfolioConfig[k].stopLossPercent >= 1
    /\ portfolioConfig[k].stopLossPercent <= 10

\* C29: the Position Store is read-only for the core: a step that changes a
\* stored position is a step of the indexer alone (no invocation, setup run,
\* copy trader, queue or file changes in it); the portfolio config store
\* changes only by the one append of a setup run
C29_StoresReadOnly ==
  [][/\ store' # store =>
          /\ inv' = inv
          /\ queue' = queue
          /\ alerts' = alerts
          /\ setup' = setup
          /\ filler' = filler
          /\ bus' = bus
          /\ portfolioConfig' = portfolioConfig
          /\ ruleFiles' = ruleFiles
     /\ portfolioConfig' # portfolioConfig =>
          /\ inv' = inv
          /\ filler' = filler
          /\ \E s \in Runs :
               /\ ~ setup[s].written
               /\ setup'[s].written
               /\ \A t \in Runs \ {s} : setup'[t] = setup[t]
               /\ portfolioConfig' =
                    Append(portfolioConfig, setup'[s].newPortfolioEntry)
    ]_vars

\* C30: copyBuyImpl with a positive quantity and ctx.isBuy not strictly true,
\* and copySellImpl with a positive quantity and ctx.isBuy not strictly false,
\* return without an error and without any call (fleet lookup, guard,
\* getProposedSum, proposeOrder, raiseAlert); so a copy buy and a copy sell
\* dispatched with the same isBuy never both propose an order
C30_SideFilter ==
  /\ \A i \in Invs :
       LET r == inv[i] IN
       ( /\ r.pc # "idle"
         /\ JsGt(r.quantity, 0)
         /\ \/ r.kind = "copyBuy" /\ r.isBuy # "true"
            \/ r.kind = "copySell" /\ r.isBuy # "false" )
       => /\ r.pc = "done"
          /\ r.err = ""
          /\ r.log = <<>>
  /\ \A i, j \in Invs :
       ( /\ inv[i].kind = "copyBuy"
         /\ inv[j].kind = "copySell"
         /\ inv[i].isBuy = inv[j].isBuy )
       => ~ ( /\ NumCalls(inv[i], "proposeOrder") > 0
              /\ NumCalls(inv[j], "proposeOrder") > 0 )

\* a copied trader's sale: the copy buy has returned at the filter while the
\* copy sell of the same event has proposed its order
C30_Witness ==
  \E i, j \in Invs :
    /\ inv[i].kind = "copyBuy"
    /\ inv[i].isBuy = "false"
    /\ JsGt(inv[i].quantity, 0)
    /\ inv[i].pc = "done"
    /\ inv[j].kind = "copySell"
    /\ inv[j].isBuy = "false"
    /\ NumCalls(inv[j], "proposeOrder") = 1

\* C31: every initial target position the setup run computes and hands to the
\* copy trader has a positive quantity not above the copied trader's stored
\* quantity of that subject, for every strategy and every stored position
\* (a stored balance of 0 included); so no initial-fill evaluation ends with
\* the error "Quantity must be greater than zero"
C31_InitialTargetsPositive ==
  /\ \A s \in Runs :
       LET r == setup[s] IN
       \A k \in 1 .. Len(r.calculatedInitialPositions) :
         /\ r.calculatedInitialPositions[k].gamer
              = r.copiedTraderCurrentPortfolioTemp[k].gamer
         /\ r.calculatedInitialPositions[k].quantity > 0
         /\ r.calculatedInitialPositions[k].quantity
              <= r.copiedTraderCurrentPortfolioTemp[k].quantity
  /\ \A k \in 1 .. Len(filler.invoked) : filler.invoked[k].quantity > 0
  /\ inv[FillerSlot].err # "CopyBuyImpl: Quantity must be greater than zero"
  /\ filler.err # "CopyBuyImpl: Quantity must be greater than zero"

\* C32: when the handlers of two fill requests for different portfolios
\* interleave at their awaits, every buy evaluation uses the rule and the
\* context of its own request: the evaluation a handler awaits, and every order
\* the copy trader proposes, carries the portfolio name, the subject and the
\* quantity of a position of one and the same request
C32_HandlersKeepOwnRule ==
  /\ \A h \in Handlers :
       LET r == filler.handler[h] IN
       r.pc = "await"
         => /\ inv[h].portfolio = r.portfolio.portfolioName
            /\ inv[h].gamer = r.portfolio.newPortfolioInitialPositions[r.k].gamer
            /\ inv[h].quantity
                 = r.portfolio.newPortfolioInitialPositions[r.k].quantity
  /\ \A n \in 1 .. Len(queue) :
       queue[n].invokedBy = "copyTrader"
         => \E d \in 1 .. Len(filler.delivered) :
              LET portfolio == filler.delivered[d] IN
              /\ queue[n].portfolioName = portfolio.portfolioName
              /\ \E k \in 1 .. Len(portfolio.newPortfolioInitialPositions) :
                   /\ portfolio.newPortfolioInitialPositions[k].gamer
                        = queue[n].gamer
                   /\ portfolio.newPortfolioInitialPositions[k].quantity
                        = queue[n].quantity

\* both handlers are past their await at once, one for each portfolio, and
\* the queue holds an order of each
C32_Witness ==
  /\ \E h, g \in Handlers :
       /\ filler.handler[h].portfolio.portfolioName = "P"
       /\ filler.handler[g].portfolio.portfolioName = "Q"
       /\ filler.handler[h].pc = "await"
       /\ filler.handler[g].pc = "await"
  /\ \E n, m \in 1 .. Len(queue) :
       /\ queue[n].portfolioName = "P" /\ queue[n].quantity = 1
       /\ queue[m].portfolioName = "Q" /\ queue[m].quantity = 2

AddressSpellings == {"0xAa", " 0xAa", "0xaa", "0xBb", "0xbb", "0xCc"}

\* C34: for every portfolio the setup flow has persisted and every address
\* stored in its keyFleet, findPortfolioByKeyFleetAddress returns that
\* portfolio, whatever letter case and surrounding blanks the address was
\* entered or is looked up with; for an address in no keyFleet it returns null
C34_FleetLookupRoundTrip ==
  /\ \A n \in 1 .. Len(portfolioConfig) :
       \A k \in 1 .. Len(portfolioConfig[n].keyFleet) :
         \A a \in AddressSpellings :
           getAddress(Trim(a)) = getAddress(Trim(portfolioConfig[n].keyFleet[k]))
             => findPortfolioByKeyFleetAddress(portfolioConfig, a)
                  = portfolioConfig[n]
  /\ \A a \in AddressSpellings :
       (\A n \in 1 .. Len(portfolioConfig) :
          \A k \in 1 .. Len(portfolioConfig[n].keyFleet) :
            getAddress(Trim(a)) # getAddress(Trim(portfolioConfig[n].keyFleet[k])))
         => findPortfolioByKeyFleetAddress(portfolioConfig, a) = NoEntry

\* the calls of an invocation that name a holder
HolderOps == {"adjustSellTargetAmount", "proposeOrder", "getProposedSum"}

\* C35: sellBitFromAutoSelectedFleetKeyImpl validates before it acts: an amount
\* that is not a string of decimal digits, or a ctx without gamer, ends it with
\* an error, the amount "0" ends it normally, and in all three cases it has
\* made no call (fleet lookup, guard, getProposedSum, proposeOrder, raiseAlert);
\* otherwise the holder it selected over the whole fleet is the wallet of its
\* balance clamp, of its SELL order and of its pending-sum query
C35_AutoSellValidatesFirst ==
  \A i \in Invs :
    LET r == inv[i] IN
    (r.kind = "sellAuto" /\ r.pc # "idle") =>
      /\ ~ (r.amount.type = "string" /\ IsNum(r.amount.val) /\ r.amount.val >= 0)
           => r.pc = "error" /\ r.err # "" /\ r.log = <<>>
      /\ r.gamer = NoGamer => r.pc = "error" /\ r.err # "" /\ r.log = <<>>
      /\ ( /\ r.amount = RawString(0)
           /\ r.gamer # NoGamer )
           => r.pc = "done" /\ r.err = "" /\ r.log = <<>>
      /\ r.log # <<>> =>
           /\ r.log[1].op = "getLargestKeyFleetOwnerOfGamer"
           /\ r.log[1].holder \in Range(AllAddresses)
           /\ r.holder = r.log[1].holder
           /\ \A k \in 1 .. Len(r.log) :
                r.log[k].op \in HolderOps => r.log[k].holder = r.log[1].holder
      /\ \A n \in 1 .. Len(queue) :
           queue[n].ruleID = "sellAuto"
             => /\ queue[n].side = "SELL"
                /\ \E j \in Invs :
                     /\ inv[j].kind = "sellAuto"
                     /\ inv[j].gamer = queue[n].gamer
                     /\ NumCalls(inv[j], "proposeOrder") > 0
                     /\ inv[j].log[1].holder = queue[n].holder

\* one invocation was refused for an amount that is a number, not a string,
\* while another has selected holder H and proposed its order for H
C35_Witness ==
  \E i, j \in Invs :
    /\ inv[i].kind = "sellAuto"
    /\ inv[i].amount = RawNumber(1)
    /\ inv[i].pc = "error"
    /\ inv[j].kind = "sellAuto"
    /\ inv[j].holder = "H"
    /\ NumCalls(inv[j], "proposeOrder") = 1
    /\ \E n \in 1 .. Len(queue) :
         queue[n].ruleID = inv[j].ruleID /\ queue[n].holder = "H"

\* C36: for every portfolio name and every initial position, the rule the
\* copy trader evaluates has the condition copyTrade(<that name>) and the
\* action copyBuy(<that quantity>, true), also when the name contains the text
\* PORTFOLIO_NAME or COPY_QTY; shimCopyTradeActionForQuantity replaces every
\* COPY_QTY of a rule-set by the quantity and changes nothing else
C36_PlaceholdersSubstituted ==
  /\ filler.buyRules # <<>> =>
       /\ ExpressionName(filler.buyRules) = filler.portfolioName
       /\ ActionQuantity(filler.buyRules)
            = <<"copyBuy(", ToString(filler.quantity), ", true)">>
  /\ filler.tradeRules # <<>> =>
       LET before == tradeRulesText(filler.portfolioName) IN
       /\ Len(filler.tradeRules) = Len(before)
       /\ \A k \in 1 .. Len(before) :
            filler.tradeRules[k] = (IF before[k] = "COPY_QTY"
                                      THEN ToString(filler.quantity)
                                    ELSE before[k])

====
